---------------------------- MODULE Spec2Model ----------------------------
(***************************************************************************)
(* A model of the NS1 Ansible modules (library/ns1_zone.py,                *)
(* library/ns1_tsig.py and the other modules of library/): the parameter   *)
(* differ (sanitize_params, diff_params, diff_in_secondaries,              *)
(* get_changed_params) and the per-invocation reconciliation of each       *)
(* module against the NS1 client.                                          *)
(*                                                                         *)
(* Python values are tagged records, so that values of different Python    *)
(* types can be compared:                                                  *)
(*   None  -> [t |-> "none"]                                               *)
(*   int   -> [t |-> "int",  v |-> n]    (a bool is the int 0 or 1: Python *)
(*            == and hash() do not tell True from 1)                       *)
(*   str   -> [t |-> "str",  v |-> s]                                      *)
(*   list  -> [t |-> "list", v |-> <<...>>]                                *)
(*   dict  -> [t |-> "dict", v |-> f]    f a function from keys to values  *)
(*   tuple -> [t |-> "tup",  v |-> <<...>>]  (only as a dict key)          *)
(* A dict key is itself a value (a str, or the tuple (ip, port)).  The     *)
(* order of a dict's items is not modelled.                                *)
(***************************************************************************)
EXTENDS Integers, Sequences, FiniteSets, TLC

VARIABLES
    pc,         \* position of the invocation / of the call under test
    have,       \* remote-side input of the differ (zone.data, tsig, a secondaries list)
    params,     \* desired-side input as given (module.params, or want as passed)
    want,       \* the value handed to diff_params as want
    out,        \* value returned by the operation
    module,     \* which module runs (exec_module specifications)
    check_mode, \* module.check_mode
    diff_mode,  \* module._diff
    remote,     \* the resource as NS1 stores it (None: it does not exist)
    calls,      \* writes issued to the NS1 client so far, in order
    changed,    \* the changed flag computed by the invocation
    update_diff, \* the diff computed by update_on_change
    result      \* what the invocation hands to exit_json

\* the variables of an invocation of a module
runVars == <<module, check_mode, diff_mode, remote, calls, changed, update_diff, result>>
vars == <<pc, have, params, want, out, runVars>>

(***************************************************************************)
(* Bounds of the input sets.                                               *)
(***************************************************************************)
MaxInt == 1   \* scalar ints (and bools) range over 0..MaxInt
MaxNet == 2   \* elements of a set-list (network ids) range over 1..MaxNet
MaxLen == 2   \* a set-list has at most MaxLen elements
MaxSecondaries == 2   \* a secondaries list has at most MaxSecondaries descriptors

(***************************************************************************)
(* Python values.                                                          *)
(***************************************************************************)
N == [t |-> "none"]
I(n) == [t |-> "int", v |-> n]
S(s) == [t |-> "str", v |-> s]
L(q) == [t |-> "list", v |-> q]
D(f) == [t |-> "dict", v |-> f]
Tup(q) == [t |-> "tup", v |-> q]

\* an exception that nothing catches (TypeError) ends the call
Raise == [t |-> "raise"]
\* module.fail_json(msg=...) ends the invocation with a failure
Fail(msg) == [t |-> "fail", msg |-> msg]

EmptyDict == D(<<>>)
IsDict(x) == x.t = "dict"
IsList(x) == x.t = "list"
Keys(d) == DOMAIN d.v
\* bool(d) of a dict: it has at least one item
Truthy(d) == Keys(d) # {}
Elems(l) == {l.v[i] : i \in DOMAIN l.v}
Hashable(x) == x.t \in {"none", "int", "str", "tup"}

\* d without the keys of ks (dict.pop(k, None) for each k)
Without(d, ks) == D([k \in Keys(d) \ ks |-> d.v[k]])
\* d restricted to the keys of ks
Only(d, ks) == D([k \in Keys(d) \cap ks |-> d.v[k]])
\* d with key k set to x
With(d, k, x) == D([j \in Keys(d) \cup {k} |-> IF j = k THEN x ELSE d.v[j]])

\* all sequences over S of length 0..n
SeqsUpTo(U, n) == UNION {[1..k -> U] : k \in 0..n}
\* all permutations of the sequence q
Perms(q) ==
    {[i \in DOMAIN q |-> q[f[i]]] :
        f \in {g \in [DOMAIN q -> DOMAIN q] : \A i, j \in DOMAIN q : g[i] = g[j] => i = j}}
\* all dicts made of one optional field: key k absent, or k with a value of V
OptField(k, V) == {<<>>} \cup {(k :> x) : x \in V}

(***************************************************************************)
(* library/ns1_zone.py, library/ns1_tsig.py: module constants.             *)
(***************************************************************************)
SET_PARAMS == {S("other_ips"), S("other_ports"), S("networks")}
SANITIZED_PARAMS == {S("state"), S("name")}

(***************************************************************************)
(* sanitize_params.                                                        *)
(***************************************************************************)
RECURSIVE filter_empty_params(_)

\* variant: None values are kept
KeepsItemNone(val) ==
    IF IsDict(val) THEN Truthy(filter_empty_params(val)) ELSE TRUE

\* whether filter_empty_params keeps the item (key, val), given the filtered
\* nested dict: a dict is kept when its filtered form is non-empty, any other
\* value when it is not None
KeepsItem(val) ==
    IF IsDict(val) THEN Truthy(filter_empty_params(val)) ELSE val # N

filter_empty_params(d) ==
    D([key \in {k \in Keys(d) : KeepsItem(d.v[k])} |->
         IF IsDict(d.v[key]) THEN filter_empty_params(d.v[key]) ELSE d.v[key]])

\* the keys sanitize_params pops after filtering: top level only
PoppedParams(filtered) == SANITIZED_PARAMS

\* variant: the SANITIZED_PARAMS are popped at every level of the tree
RECURSIVE PoppedDeep(_)
PoppedDeep(d) ==
    D([key \in Keys(d) \ SANITIZED_PARAMS |->
         IF IsDict(d.v[key]) THEN PoppedDeep(d.v[key]) ELSE d.v[key]])
sanitize_params_deep(p) == PoppedDeep(filter_empty_params(p))

sanitize_params(p) ==
    LET filtered == filter_empty_params(p)
    IN  Without(filtered, PoppedParams(filtered))

(***************************************************************************)
(* diff_params.                                                            *)
(***************************************************************************)
\* `param in have` cannot be evaluated (TypeError): have is an int or None,
\* or have is a str and param is not
InRaises(param, hv) ==
    \/ hv.t \in {"int", "none"}
    \/ hv.t = "str" /\ param.t # "str"

\* `param in have`: key of a dict, element of a list or tuple, substring of a
\* str (the strings of the model have one character or are key names, never
\* the empty string: a substring of a one-character string is that string)
PyIn(param, hv) ==
    CASE hv.t = "dict" -> param \in Keys(hv)
      [] hv.t \in {"list", "tup"} -> param \in Elems(hv)
      [] hv.t = "str" -> param = hv
      [] OTHER -> FALSE

\* set(x) cannot be built (TypeError): x is not iterable or holds a list or dict
SetRaises(x) ==
    CASE x.t \in {"int", "none"} -> TRUE
      [] x.t \in {"list", "tup"} -> \E e \in Elems(x) : ~Hashable(e)
      [] OTHER -> FALSE

\* set(x): the elements of a list, the keys of a dict, the characters of a str
PySet(x) ==
    CASE x.t \in {"list", "tup"} -> Elems(x)
      [] x.t = "dict" -> Keys(x)
      [] x.t = "str" -> {x}
      [] OTHER -> {}

\* no entry is recorded for the parameter
Skip == [t |-> "skip"]

\* variant: a None value of want is taken for "not given" and skipped
MissingEntrySkipsNone(wanted_val) == IF wanted_val = N THEN Skip ELSE wanted_val

\* line 428: the parameter is not in have
MissingEntry(wanted_val) == wanted_val

\* variant: the nested diff is recorded even when it is empty
SubDiffEntryAlways(subparam_diff) == subparam_diff

\* line 432: `if subparam_diff:` the nested diff is recorded when non-empty
SubDiffEntry(subparam_diff) ==
    IF Truthy(subparam_diff) THEN subparam_diff ELSE Skip

\* variant: the two lists are compared as ordered lists
SetEntryOrdered(have_val, wanted_val) ==
    IF have_val # wanted_val THEN wanted_val ELSE Skip

\* lines 435-436: a list parameter of SET_PARAMS is compared as a set
SetEntry(have_val, wanted_val) ==
    IF SetRaises(have_val) \/ SetRaises(wanted_val) THEN Raise
    ELSE IF PySet(have_val) # PySet(wanted_val) THEN wanted_val ELSE Skip

\* variant: the comparison is inverted (== for !=)
PlainEntryInverted(have_val, wanted_val) ==
    IF have_val = wanted_val THEN wanted_val ELSE Skip

\* lines 437-438: any other parameter is compared with !=
PlainEntry(have_val, wanted_val) ==
    IF have_val # wanted_val THEN wanted_val ELSE Skip

RECURSIVE diff_params(_, _)

\* variant: a nested object is compared wholesale with != instead of recursively
DiffEntryNoRecursion(hv, param, wanted_val) ==
    IF InRaises(param, hv) THEN Raise
    ELSE IF ~PyIn(param, hv) THEN MissingEntry(wanted_val)
    ELSE IF ~IsDict(hv) THEN Raise
    ELSE IF IsList(wanted_val) /\ param \in SET_PARAMS THEN
        SetEntry(hv.v[param], wanted_val)
    ELSE PlainEntry(hv.v[param], wanted_val)

\* one iteration of the loop of diff_params: the entry recorded for param,
\* Skip, or Raise
DiffEntry(hv, param, wanted_val) ==
    IF InRaises(param, hv) THEN Raise
    ELSE IF ~PyIn(param, hv) THEN MissingEntry(wanted_val)
    \* have[param] of a list or str with a str index is a TypeError
    ELSE IF ~IsDict(hv) THEN Raise
    ELSE IF IsDict(wanted_val) THEN
        LET subparam_diff == diff_params(hv.v[param], wanted_val)
        IN  IF subparam_diff = Raise THEN Raise ELSE SubDiffEntry(subparam_diff)
    ELSE IF IsList(wanted_val) /\ param \in SET_PARAMS THEN
        SetEntry(hv.v[param], wanted_val)
    ELSE PlainEntry(hv.v[param], wanted_val)

\* diff_params(have, want): have is any value (zone.data or a nested value of
\* it), want is a dict.  The result is a dict, or Raise.
diff_params(hv, wv) ==
    LET entry == [param \in Keys(wv) |-> DiffEntry(hv, param, wv.v[param])]
    IN  IF \E param \in Keys(wv) : entry[param] = Raise THEN Raise
        ELSE D([param \in {p \in Keys(wv) : entry[p] # Skip} |-> entry[param]])


(***************************************************************************)
(* convert_secondaries_to_dict, diff_in_secondaries.                       *)
(***************************************************************************)
Bool(b) == [t |-> "bool", v |-> b]
IsFail(x) == x.t = "fail"

\* the first descriptor of the list that cannot be keyed: it lacks ip or port
\* (KeyError), or is no dict, or its ip or port is unhashable (TypeError);
\* 0 when every descriptor can be keyed
CanKey(s) ==
    /\ IsDict(s)
    /\ S("ip") \in Keys(s) /\ S("port") \in Keys(s)
    /\ Hashable(s.v[S("ip")]) /\ Hashable(s.v[S("port")])
FirstUnkeyed(secondaries) ==
    LET bad == {i \in DOMAIN secondaries.v : ~CanKey(secondaries.v[i])}
    IN  IF bad = {} THEN 0 ELSE CHOOSE i \in bad : \A j \in bad : i <= j

\* (s["ip"], s["port"])
SecondaryKey(s) == Tup(<<s.v[S("ip")], s.v[S("port")]>>)

\* the descriptor a key maps to when several descriptors of the list have
\* the key: a dict comprehension keeps the last one
KeptIndex(secondaries, key) ==
    LET at == {i \in DOMAIN secondaries.v : SecondaryKey(secondaries.v[i]) = key}
    IN  CHOOSE i \in at : \A j \in at : j <= i

\* variant: a descriptor that cannot be keyed is left out
convert_secondaries_skipping(secondaries) ==
    LET keyed == {i \in DOMAIN secondaries.v : CanKey(secondaries.v[i])}
    IN  D([key \in {SecondaryKey(secondaries.v[i]) : i \in keyed} |->
             secondaries.v[CHOOSE i \in keyed :
                              /\ SecondaryKey(secondaries.v[i]) = key
                              /\ \A j \in keyed :
                                    SecondaryKey(secondaries.v[j]) = key => j <= i]])

\* convert_secondaries_to_dict(secondaries): the dict keyed by (ip, port), or
\* fail_json naming the missing field, or Raise
convert_secondaries_to_dict(secondaries) ==
    LET bad == FirstUnkeyed(secondaries)
    IN  IF bad # 0 THEN
            LET s == secondaries.v[bad]
            IN  IF ~IsDict(s) THEN Raise
                ELSE IF S("ip") \notin Keys(s) THEN Fail("ip")
                ELSE IF S("port") \notin Keys(s) THEN Fail("port")
                ELSE Raise
        ELSE
            D([key \in {SecondaryKey(secondaries.v[i]) : i \in DOMAIN secondaries.v} |->
                 secondaries.v[KeptIndex(secondaries, key)]])

\* variant: the lengths are not looked at
LengthsNeverDiffer(have_secondaries, want_secondaries) == FALSE

\* lines 508-509: lists of different length differ
LengthsDiffer(have_secondaries, want_secondaries) ==
    Len(want_secondaries.v) # Len(have_secondaries.v)

\* diff_in_secondaries(have_secondaries, want_secondaries): Bool(TRUE),
\* Bool(FALSE), a fail_json of convert_secondaries_to_dict, or Raise
diff_in_secondaries(have_secondaries, want_secondaries) ==
    IF want_secondaries = N THEN Bool(FALSE)
    ELSE IF have_secondaries = N THEN Bool(TRUE)
    ELSE IF LengthsDiffer(have_secondaries, want_secondaries) THEN Bool(TRUE)
    ELSE
        LET hv == convert_secondaries_to_dict(have_secondaries)
            wv == convert_secondaries_to_dict(want_secondaries)
        IN  IF ~IsDict(hv) THEN hv
            ELSE IF ~IsDict(wv) THEN wv
            ELSE LET diff == diff_params(hv, wv)
                 IN  IF diff = Raise THEN Raise ELSE Bool(Truthy(diff))

(***************************************************************************)
(* Input sets of the differ.                                               *)
(***************************************************************************)
IntVals == {I(n) : n \in 0..MaxInt}
\* set-lists of network ids, duplicates and every order included
NetLists == {L(q) : q \in SeqsUpTo({I(n) : n \in 1..MaxNet}, MaxLen)}

\* zones with scalar and set-list parameters; a parameter the task does not
\* give is None in module.params
FlatDicts ==
    {D(a @@ b) : a \in OptField(S("ttl"), IntVals \cup {N}),
                 b \in OptField(S("networks"), NetLists \cup {N})}

\* zones with nested objects, three levels deep, and values of another shape
\* where an object is expected
TsigDicts == {D(a) : a \in OptField(S("name"), {N, S("a"), S("b")})}
SecondaryDicts ==
    {D(a @@ b @@ c) :
        a \in OptField(S("enabled"), IntVals \cup {N}),
        b \in OptField(S("other_ips"), {L(<<S("a"), S("b")>>), L(<<S("b"), S("a")>>)}),
        c \in OptField(S("tsig"), TsigDicts \cup {I(0)})}
SecondaryVals == SecondaryDicts \cup {N, I(0), S("a"), L(<<S("enabled")>>)}
NestedDicts ==
    {D(a @@ b) : a \in OptField(S("name"), {S("a")}),
                 b \in OptField(S("secondary"), SecondaryVals)}

DiffInputs == (FlatDicts \X FlatDicts) \cup (NestedDicts \X NestedDicts)

(***************************************************************************)
(* Calls of the differ: diff_params(have, want) on want as given, and      *)
(* sanitize_params(params) followed by diff_params(have, want), as         *)
(* present() and update_on_change() chain them.                            *)
(***************************************************************************)
NoRun == /\ module = "none"
         /\ check_mode = FALSE
         /\ diff_mode = FALSE
         /\ remote = N
         /\ calls = <<>>
         /\ changed = FALSE
         /\ update_diff = N
         /\ result = N

InitDiff ==
    /\ pc = "input"
    /\ \E hp \in DiffInputs : have = hp[1] /\ params = hp[2]
    /\ want = N
    /\ out = N
    /\ NoRun

SanitizeParams ==
    /\ pc = "input"
    /\ want' = sanitize_params(params)
    /\ pc' = "sanitized"
    /\ UNCHANGED <<have, params, out, runVars>>

DiffParams ==
    /\ pc \in {"input", "sanitized"}
    /\ want' = (IF pc = "input" THEN params ELSE want)
    /\ out' = diff_params(have, want')
    /\ pc' = (IF pc = "input" THEN "diffed_raw" ELSE "diffed")
    /\ UNCHANGED <<have, params, runVars>>

NextDiff == SanitizeParams \/ DiffParams

SpecDiff == InitDiff /\ [][NextDiff]_vars


(***************************************************************************)
(* Properties of diff_params and sanitize_params (SpecDiff).               *)
(***************************************************************************)
\* a call of diff_params has returned a diff
Diffed == pc \in {"diffed_raw", "diffed"} /\ out # Raise

RECURSIVE MissingRecorded(_, _, _)
\* every field of w that h lacks is in d with exactly w's value, at this level
\* and in every nested object that h, w and d all have
MissingRecorded(h, w, d) ==
    \A k \in Keys(w) :
        /\ k \notin Keys(h) => (k \in Keys(d) /\ d.v[k] = w.v[k])
        /\ (k \in Keys(h) /\ k \in Keys(d) /\ IsDict(h.v[k]) /\ IsDict(w.v[k]))
              => MissingRecorded(h.v[k], w.v[k], d.v[k])

\* C1: every field of want that have lacks is in the diff with exactly want's
\* value, whatever its kind; a nested object new to have is recorded whole.
C1_MissingFieldRecorded == Diffed => MissingRecorded(have, want, out)

\* want gives a nested object and a value of another kind that have lacks,
\* and the diff was returned
C1_Witness ==
    /\ Diffed
    /\ \E k \in Keys(want) \ Keys(have) : IsDict(want.v[k]) /\ Truthy(want.v[k])
    /\ \E k \in Keys(want) \ Keys(have) : ~IsDict(want.v[k])

RECURSIVE Same(_, _, _)
\* the value wv that want gives for key asks for nothing that hv does not
\* already have: nested objects field by field, set-lists as sets, anything
\* else by equality
Same(hv, wv, key) ==
    IF IsDict(wv)
    THEN \A j \in Keys(wv) :
            IsDict(hv) /\ j \in Keys(hv) /\ Same(hv.v[j], wv.v[j], j)
    ELSE IF IsList(wv) /\ IsList(hv) /\ key \in SET_PARAMS
    THEN Elems(hv) = Elems(wv)
    ELSE hv = wv

RECURSIVE IsDiffOf(_, _, _)
\* d is the diff of the objects h and w: its fields are the fields of w that
\* h lacks or has with another value; a field that is an object on both
\* sides holds the diff of the two objects, any other field w's value
IsDiffOf(d, h, w) ==
    /\ IsDict(d)
    /\ Keys(d) = {j \in Keys(w) : j \notin Keys(h) \/ ~Same(h.v[j], w.v[j], j)}
    /\ \A j \in Keys(d) :
          IF j \in Keys(h) /\ IsDict(h.v[j]) /\ IsDict(w.v[j])
          THEN IsDiffOf(d.v[j], h.v[j], w.v[j])
          ELSE d.v[j] = w.v[j]

RECURSIVE NoEmptyMapping(_)
\* no field of the object d, at any nesting level, has an empty mapping as value
NoEmptyMapping(d) ==
    \A k \in Keys(d) :
        IsDict(d.v[k]) => (Truthy(d.v[k]) /\ NoEmptyMapping(d.v[k]))

\* the fields that are nested objects on both sides
BothObjects == {k \in Keys(want) \cap Keys(have) : IsDict(have.v[k]) /\ IsDict(want.v[k])}

\* for a field that is a nested object on both sides, the entry is the
\* recursive diff, and the field is omitted when that diff is empty
NestedEntryIsSubDiff ==
    Diffed =>
        \A k \in BothObjects :
            IF Same(have.v[k], want.v[k], k)
            THEN k \notin Keys(out)
            ELSE k \in Keys(out) /\ Truthy(out.v[k])
                     /\ IsDiffOf(out.v[k], have.v[k], want.v[k])

\* C2 as claimed: the entry of a nested object is the recursive diff, omitted
\* when empty, and no diff ever contains an empty mapping at any level.
C2_NeverEmptyMapping ==
    /\ NestedEntryIsSubDiff
    /\ Diffed => NoEmptyMapping(out)

\* C2, amended: the entry of a nested object is the recursive diff, omitted
\* when empty; the diff contains no empty mapping at any level whenever want
\* contains none, which is so for every want that sanitize_params produced.
C2_NoEmptyMappingFromSanitized ==
    /\ NestedEntryIsSubDiff
    /\ (Diffed /\ NoEmptyMapping(want)) => NoEmptyMapping(out)
    /\ pc \in {"sanitized", "diffed"} => NoEmptyMapping(want)

\* a nested object differs two levels down, and only that sub-field is recorded
C2_Witness ==
    /\ pc = "diffed"
    /\ out = D(S("secondary") :> D(S("tsig") :> D(S("name") :> S("b"))))
    /\ Keys(want.v[S("secondary")]) = {S("enabled"), S("tsig")}

\* the places where have and want both hold a list under a SET_PARAMS name:
\* <<h, w, d>> with d the diff at that place
SetListPlaces ==
    LET top == IF Diffed THEN {<<have, want, out>>} ELSE {}
        sec == S("secondary")
        nested == IF /\ Diffed
                     /\ sec \in BothObjects
                  THEN {<<have.v[sec], want.v[sec],
                          IF sec \in Keys(out) THEN out.v[sec] ELSE EmptyDict>>}
                  ELSE {}
    IN  top \cup nested

\* C3: a SET_PARAMS list is compared as a set: it is in the diff iff the two
\* sets of elements differ; no list with the same set of elements as want's
\* changes the decision; an empty desired list against a non-empty remote one
\* is a change; the recorded value is want's literal list.
C3_SetListComparedAsSet ==
    \A place \in SetListPlaces :
        LET h == place[1]
            w == place[2]
            d == place[3]
        IN  \A k \in (Keys(h) \cap Keys(w)) \cap SET_PARAMS :
                (IsList(h.v[k]) /\ IsList(w.v[k])) =>
                    /\ k \in Keys(d) <=> Elems(h.v[k]) # Elems(w.v[k])
                    /\ k \in Keys(d) => d.v[k] = w.v[k]
                    /\ (w.v[k] = L(<<>>) /\ h.v[k] # L(<<>>)) => k \in Keys(d)
                    /\ \A other \in NetLists :
                          Elems(other) = Elems(w.v[k]) =>
                              LET d2 == diff_params(h, With(w, k, other))
                              IN  /\ k \in Keys(d2) <=> k \in Keys(d)
                                  /\ k \in Keys(d2) => d2.v[k] = other

\* the remote list and the desired list hold the same elements in another
\* order, and the field is not in the diff
C3_Witness ==
    /\ Diffed
    /\ S("networks") \in Keys(have) \cap Keys(want)
    /\ IsList(have.v[S("networks")]) /\ IsList(want.v[S("networks")])
    /\ have.v[S("networks")] # want.v[S("networks")]
    /\ Len(want.v[S("networks")].v) = 2
    /\ Elems(have.v[S("networks")]) = Elems(want.v[S("networks")])
    /\ S("networks") \notin Keys(out)

RECURSIVE KeysWithin(_, _)
\* at every nesting level the keys of d are keys of w
KeysWithin(d, w) ==
    /\ Keys(d) \subseteq Keys(w)
    /\ \A k \in Keys(d) :
          (IsDict(d.v[k]) /\ IsDict(w.v[k])) => KeysWithin(d.v[k], w.v[k])

RECURSIVE Mentioned(_, _)
\* h without the fields that w does not mention, at every nesting level
Mentioned(h, w) ==
    IF IsDict(h) /\ IsDict(w)
    THEN D([k \in Keys(h) \cap Keys(w) |-> Mentioned(h.v[k], w.v[k])])
    ELSE h

\* C4: the diff depends only on the fields of have that want mentions: its
\* keys are keys of want at every level, and it is the diff that have
\* stripped of every field want does not mention gives.
C4_OnlyMentionedFields ==
    pc \in {"diffed_raw", "diffed"} =>
        /\ out # Raise => KeysWithin(out, want)
        /\ out = diff_params(Mentioned(have, want), want)

\* have holds a field and a nested sub-field that want does not mention, and
\* the diff is empty
C4_Witness ==
    /\ Diffed
    /\ out = EmptyDict
    /\ S("secondary") \in BothObjects
    /\ Keys(have) \ Keys(want) # {}
    /\ Keys(have.v[S("secondary")]) \ Keys(want.v[S("secondary")]) # {}
    /\ Truthy(want.v[S("secondary")])

\* C5: self-comparison is a no-op: diff_params(have, sanitize_params(have))
\* is the empty mapping.
C5_SelfDiffEmpty ==
    (pc = "diffed" /\ params = have) => out = EmptyDict

\* a state tree with a null value, a set-list and a nested object was
\* compared with its own sanitized form
C5_Witness ==
    /\ pc = "diffed"
    /\ params = have
    /\ S("secondary") \in Keys(have)
    /\ IsDict(have.v[S("secondary")])
    /\ S("tsig") \in Keys(have.v[S("secondary")])
    /\ S("other_ips") \in Keys(have.v[S("secondary")])
    /\ S("enabled") \in Keys(have.v[S("secondary")])
    /\ have.v[S("secondary")].v[S("enabled")] = N
    /\ out = EmptyDict

RECURSIVE NoNullFrom(_, _)
\* no field that is None in p, at the top level or in a nested object, is a
\* key of d at that place
NoNullFrom(p, d) ==
    \A k \in Keys(p) :
        /\ p.v[k] = N => k \notin Keys(d)
        /\ (IsDict(p.v[k]) /\ k \in Keys(d) /\ IsDict(d.v[k]))
              => NoNullFrom(p.v[k], d.v[k])

\* C8 as claimed: a field that is present in want with a null value never
\* produces a diff entry; diff_params({}, {"a": null}) is the empty mapping.
C8_NullWantIsSilent ==
    Diffed => NoNullFrom(want, out)

\* C8, amended: a field that is null in the module parameters, at the top
\* level or in a nested object, never produces a diff entry once
\* sanitize_params has run: diff_params(have, sanitize_params(params)) has
\* no entry for it, and is empty for have = {} and params = {"ttl": null}.
C8_NullParamIsSilent ==
    (pc = "diffed" /\ out # Raise) =>
        /\ NoNullFrom(params, out)
        /\ (have = EmptyDict /\ params = D(S("ttl") :> N)) => out = EmptyDict

\* params hold a null field that have lacks, at the top level, next to a
\* field that does differ
C8_Witness ==
    /\ pc = "diffed"
    /\ out # Raise
    /\ \E k \in Keys(params) \ Keys(have) : params.v[k] = N
    /\ Truthy(out)


(***************************************************************************)
(* Input sets of diff_in_secondaries.                                      *)
(***************************************************************************)
Identities == {<<S("a"), I(1)>>, <<S("a"), I(2)>>, <<S("b"), I(1)>>}
IdFields(id) == (S("ip") :> id[1]) @@ (S("port") :> id[2])

\* descriptors that differ in identity and in the notify flag
NotifyDescs ==
    {D(IdFields(id) @@ (S("notify") :> b)) : id \in Identities, b \in {I(0), I(1)}}
\* descriptors that differ in identity and in the per-peer networks list,
\* which may be absent
NetworkDescs ==
    {D(IdFields(id) @@ n) :
        id \in {<<S("a"), I(1)>>, <<S("b"), I(1)>>},
        n \in OptField(S("networks"), {L(<<I(1), I(2)>>), L(<<I(2), I(1)>>)})}
\* descriptors that lack ip, port or both, next to a complete one
MalformedDescs ==
    {D(a @@ b) : a \in OptField(S("ip"), {S("a")}), b \in OptField(S("port"), {I(1)})}

SecLists(descs) == {L(q) : q \in SeqsUpTo(descs, MaxSecondaries)}
SecIds(secondaries) == {SecondaryKey(secondaries.v[i]) : i \in DOMAIN secondaries.v}
\* the remote holds at most one descriptor per (ip, port); the task may
\* repeat one
RemoteSecLists(descs) ==
    {l \in SecLists(descs) : Cardinality(SecIds(l)) = Len(l.v)}

SecInputs ==
    UNION {(RemoteSecLists(descs) \cup {N}) \X (SecLists(descs) \cup {N}) :
              descs \in {NotifyDescs, NetworkDescs}}
      \cup (SecLists(MalformedDescs) \X SecLists(MalformedDescs))

(***************************************************************************)
(* Calls of diff_in_secondaries(have_secondaries, want_secondaries).       *)
(***************************************************************************)
InitSec ==
    /\ pc = "input"
    /\ \E hp \in SecInputs : have = hp[1] /\ params = hp[2]
    /\ want = N
    /\ out = N
    /\ NoRun

DiffInSecondaries ==
    /\ pc = "input"
    /\ want' = params
    /\ out' = diff_in_secondaries(have, params)
    /\ pc' = "compared"
    /\ UNCHANGED <<have, params, runVars>>

NextSec == DiffInSecondaries

SpecSec == InitSec /\ [][NextSec]_vars


(***************************************************************************)
(* Properties of diff_in_secondaries (SpecSec).                            *)
(***************************************************************************)
\* every descriptor of the list carries ip and port
CarriesIpPort(secondaries) ==
    /\ IsList(secondaries)
    /\ \A i \in DOMAIN secondaries.v :
          S("ip") \in Keys(secondaries.v[i]) /\ S("port") \in Keys(secondaries.v[i])

\* no (ip, port) identity is repeated in the list
DistinctIds(secondaries) == Cardinality(SecIds(secondaries)) = Len(secondaries.v)

\* the lists obtained by permuting the networks list of one descriptor
NetworksPermuted(secondaries) ==
    {secondaries} \cup
    {L([i \in DOMAIN secondaries.v |->
          IF i = j THEN With(secondaries.v[i], S("networks"), L(q))
          ELSE secondaries.v[i]]) :
        j \in {i \in DOMAIN secondaries.v : S("networks") \in Keys(secondaries.v[i])},
        q \in Perms(<<I(1), I(2)>>)}

\* permuting have, want or a per-peer networks list does not change the
\* result, and the same descriptors in another order give False
OrderIgnored ==
    /\ \A h2 \in Perms(have.v), w2 \in Perms(params.v) :
          diff_in_secondaries(L(h2), L(w2)) = out
    /\ \A h2 \in NetworksPermuted(have), w2 \in NetworksPermuted(params) :
          diff_in_secondaries(h2, w2) = out
    /\ params.v \in Perms(have.v) => out = Bool(FALSE)

\* C9: diff_in_secondaries ignores order: for lists whose descriptors all
\* carry ip and port, permuting have, want or a per-peer networks list does
\* not change the result; the same descriptors in another order give False.
C9_OrderIgnored ==
    (pc = "compared" /\ CarriesIpPort(have) /\ CarriesIpPort(params)) => OrderIgnored

\* what holds of the code: the same, for a want that repeats no (ip, port)
C9_OrderIgnoredDistinctIds ==
    (pc = "compared" /\ CarriesIpPort(have) /\ CarriesIpPort(params)
        /\ DistinctIds(params)) => OrderIgnored

\* a field that the descriptor w gives differs from what the descriptor h
\* has for it (a set-list as a set)
FieldDiffers(h, w) ==
    \E k \in Keys(w) : k \notin Keys(h) \/ ~Same(h.v[k], w.v[k], k)

\* a peer was added, removed or re-keyed, or a field that want gives for a
\* peer differs from have's value for the peer with the same (ip, port)
MembershipOrFieldDiffers ==
    \/ SecIds(params) # SecIds(have)
    \/ \E i \in DOMAIN have.v, j \in DOMAIN params.v :
          /\ SecondaryKey(have.v[i]) = SecondaryKey(params.v[j])
          /\ FieldDiffers(have.v[i], params.v[j])

\* C10: diff_in_secondaries returns True whenever the sets of (ip, port)
\* identities of the two lists differ and whenever a field want gives for a
\* peer differs from have's value for that peer, for all non-null lists,
\* lists of equal length and lists that repeat an identity included.
C10_MembershipChangeDetected ==
    (pc = "compared" /\ CarriesIpPort(have) /\ CarriesIpPort(params)
        /\ MembershipOrFieldDiffers) => out = Bool(TRUE)

\* what holds of the code: the same, for a want that repeats no (ip, port)
C10_MembershipChangeDetectedDistinctIds ==
    (pc = "compared" /\ CarriesIpPort(have) /\ CarriesIpPort(params)
        /\ DistinctIds(params) /\ MembershipOrFieldDiffers) => out = Bool(TRUE)

\* a call of diff_in_secondaries has ended
Compared == pc = "compared"

\* C11: diff_in_secondaries treats a null want as silence and a null have as
\* first-time configuration: with want null the result is False for every
\* have, a non-empty one included; with want given and have null the result
\* is True; with both given and of different lengths the result is True.
C11_NullAndLengthShortCircuit ==
    Compared =>
        /\ params = N => out = Bool(FALSE)
        /\ (params # N /\ have = N) => out = Bool(TRUE)
        /\ (params # N /\ have # N /\ Len(params.v) # Len(have.v)) => out = Bool(TRUE)

\* want is null while NS1 holds two peers: no difference is reported
C11_Witness ==
    /\ Compared
    /\ params = N
    /\ have # N
    /\ Len(have.v) = 2
    /\ out = Bool(FALSE)

\* the fields ip and port that some descriptor of the list lacks
MissingFields(secondaries) ==
    {f \in {"ip", "port"} :
        \E i \in DOMAIN secondaries.v : S(f) \notin Keys(secondaries.v[i])}
\* a list of descriptors of which one lacks ip or port
Malformed(secondaries) ==
    /\ IsList(secondaries)
    /\ \A i \in DOMAIN secondaries.v : IsDict(secondaries.v[i])
    /\ MissingFields(secondaries) # {}
\* the comparison ended in fail_json naming a field that a descriptor lacks
FailedNamingMissingField ==
    /\ IsFail(out)
    /\ out.msg \in MissingFields(have) \cup MissingFields(params)

\* C12, as stated: whenever a non-null list given to diff_in_secondaries, on
\* either side, holds a descriptor that lacks ip or port, the comparison
\* ends in fail_json naming the missing field and returns neither True nor
\* False.
C12_MalformedAlwaysFails ==
    (Compared /\ (Malformed(have) \/ Malformed(params))) => FailedNamingMissingField

\* C12: malformed secondaries fail once the lists are converted, that is
\* when both lists are given and of equal length: the comparison then ends
\* in fail_json naming a missing field and returns neither True nor False.
\* The checks that come first (want null, have null, different lengths)
\* answer without looking into the descriptors.
C12_MalformedFailsAtConversion ==
    (Compared /\ (Malformed(have) \/ Malformed(params))
        /\ have # N /\ params # N /\ Len(have.v) = Len(params.v)) =>
            FailedNamingMissingField

\* have is well formed, want has as many descriptors and one of them lacks
\* port: fail_json names port
C12_Witness ==
    /\ Compared
    /\ ~Malformed(have)
    /\ Malformed(params)
    /\ Len(have.v) = 2
    /\ Len(params.v) = 2
    /\ out = Fail("port")

\* a call of diff_params has ended, for a want that gives secondary as a
\* nested object and a have that holds something other than an object there
DivergentShape ==
    /\ pc \in {"diffed_raw", "diffed"}
    /\ IsDict(have) /\ IsDict(want)
    /\ S("secondary") \in Keys(want) /\ IsDict(want.v[S("secondary")])
    /\ S("secondary") \in Keys(have) /\ ~IsDict(have.v[S("secondary")])

\* C13: divergent shapes are handled as absence: when want[field] is a
\* nested object and have[field] exists but is no mapping (an int, a str, a
\* bool, null or a list), diff_params does not raise and records the field
\* with want's whole sub-object as its value.
C13_DivergentShapeRecordedWhole ==
    DivergentShape =>
        /\ out # Raise
        /\ S("secondary") \in Keys(out)
        /\ out.v[S("secondary")] = want.v[S("secondary")]

(***************************************************************************)
(* Calls of sanitize_params(params) on parameter trees with the keys of    *)
(* SANITIZED_PARAMS at the top level and below it, and with objects held   *)
(* in a list (primary.secondaries).                                        *)
(***************************************************************************)
\* the secondaries of primary as module.params holds them: an option of a
\* descriptor that the task does not give is None
ParamDescs ==
    {D(IdFields(<<S("a"), I(1)>>) @@ a @@ b) :
        a \in OptField(S("notify"), {N, I(1)}),
        b \in OptField(S("networks"), {N, L(<<I(1)>>)})}
PrimaryDicts ==
    {D(a @@ b) :
        a \in OptField(S("enabled"), {N, I(1)}),
        b \in OptField(S("secondaries"),
                       {N} \cup {L(q) : q \in SeqsUpTo(ParamDescs, 1)})}
TsigParamDicts ==
    {D(a @@ b) : a \in OptField(S("enabled"), {N, I(1)}),
                 b \in OptField(S("name"), {N, S("a")})}
SecondaryParamDicts ==
    {D(a @@ b) : a \in OptField(S("enabled"), {N, I(0)}),
                 b \in OptField(S("tsig"), TsigParamDicts \cup {N})}
SanitizeInputs ==
    {D(a @@ b @@ c @@ d) :
        a \in OptField(S("name"), {S("a")}),
        b \in OptField(S("state"), {S("present")}),
        c \in OptField(S("primary"), PrimaryDicts),
        d \in OptField(S("secondary"), SecondaryParamDicts)}

InitSanitize ==
    /\ pc = "input"
    /\ params \in SanitizeInputs
    /\ have = EmptyDict
    /\ want = N
    /\ out = N
    /\ NoRun

NextSanitize == SanitizeParams

SpecSanitize == InitSanitize /\ [][NextSanitize]_vars

(***************************************************************************)
(* Properties of sanitize_params (SpecSanitize).                           *)
(***************************************************************************)
Sanitized == pc = "sanitized"

\* no key of ks in x, at any depth, inside the elements of lists included
RECURSIVE NoKeyAnywhere(_, _)
NoKeyAnywhere(x, ks) ==
    CASE IsDict(x) -> /\ Keys(x) \cap ks = {}
                      /\ \A k \in Keys(x) : NoKeyAnywhere(x.v[k], ks)
      [] IsList(x) -> \A i \in DOMAIN x.v : NoKeyAnywhere(x.v[i], ks)
      [] OTHER -> TRUE

\* below the top level, w has every key of SANITIZED_PARAMS that p has with
\* a value, with that value
RECURSIVE NestedNamesKept(_, _)
NestedNamesKept(p, w) ==
    \A k \in Keys(p) :
        IsDict(p.v[k]) =>
            /\ \A n \in SANITIZED_PARAMS \cap Keys(p.v[k]) :
                  p.v[k].v[n] # N =>
                      /\ k \in Keys(w)
                      /\ n \in Keys(w.v[k])
                      /\ w.v[k].v[n] = p.v[k].v[n]
            /\ (k \in Keys(w) /\ IsDict(w.v[k])) => NestedNamesKept(p.v[k], w.v[k])

\* C14, as stated: sanitize_params removes every key of SANITIZED_PARAMS
\* (state, name) at every nesting level: no key named state or name remains
\* anywhere in its output.
C14_StrippedAtEveryLevel ==
    Sanitized => NoKeyAnywhere(want, SANITIZED_PARAMS)

\* C14: sanitize_params removes the keys of SANITIZED_PARAMS at the top
\* level only: the output has no top-level state or name, and a state or name
\* that a nested object gives with a value (secondary.tsig.name) is kept
\* with that value.
C14_StrippedAtTopLevelOnly ==
    Sanitized =>
        /\ Keys(want) \cap SANITIZED_PARAMS = {}
        /\ NestedNamesKept(Without(params, SANITIZED_PARAMS), want)

\* the task names the zone and the tsig key of secondary: the zone's name is
\* gone, the key's name is kept
C14_Witness ==
    /\ Sanitized
    /\ S("name") \in Keys(params)
    /\ S("name") \notin Keys(want)
    /\ S("secondary") \in Keys(want)
    /\ S("tsig") \in Keys(want.v[S("secondary")])
    /\ S("name") \in Keys(want.v[S("secondary")].v[S("tsig")])
    /\ want.v[S("secondary")].v[S("tsig")].v[S("name")] = S("a")

\* no None in x, at any depth, inside the elements of lists included
RECURSIVE NoNullAnywhere(_)
NoNullAnywhere(x) ==
    CASE IsDict(x) -> \A k \in Keys(x) : NoNullAnywhere(x.v[k])
      [] IsList(x) -> \A i \in DOMAIN x.v : NoNullAnywhere(x.v[i])
      [] OTHER -> x # N

\* no empty object below the top level of x
RECURSIVE NoEmptyNested(_)
NoEmptyNested(x) ==
    \A k \in Keys(x) : IsDict(x.v[k]) => (Truthy(x.v[k]) /\ NoEmptyNested(x.v[k]))

\* w has every scalar of p that is not None, at the same place and with the
\* same value, inside the objects of lists included
RECURSIVE NonNullKept(_, _)
NonNullKept(p, w) ==
    CASE IsDict(p) ->
            /\ IsDict(w)
            /\ \A k \in Keys(p) :
                  CASE IsDict(p.v[k]) ->
                          k \in Keys(w) => NonNullKept(p.v[k], w.v[k])
                    [] p.v[k] = N -> TRUE
                    [] OTHER -> k \in Keys(w) /\ NonNullKept(p.v[k], w.v[k])
      [] IsList(p) ->
            /\ IsList(w)
            /\ Len(w.v) = Len(p.v)
            /\ \A i \in DOMAIN p.v : NonNullKept(p.v[i], w.v[i])
      [] OTHER -> w = p

\* C15: the output of sanitize_params holds no null at any depth of the
\* tree, inside nested objects and inside the objects held in list fields
\* such as primary.secondaries; it holds no nested object that became empty;
\* every non-null value is kept unchanged.
C15_NoNullAtAnyDepth ==
    Sanitized =>
        /\ NoNullAnywhere(want)
        /\ NoEmptyNested(want)
        /\ NonNullKept(Without(params, SANITIZED_PARAMS), want)


(***************************************************************************)
(* module_utils/ns1.py: the check-mode decorator.  A write handed to the   *)
(* NS1 client is recorded as a call; a step of a module returns an object  *)
(* and the calls it issued.                                                *)
(***************************************************************************)
Call(op, target, args) == [op |-> op, target |-> target, args |-> args]
Ret(ret, issued) == [t |-> "ret", ret |-> ret, calls |-> issued]

\* variant: the wrapped function is called in check mode too
SkipNever(chk, call, response) == Ret(response, <<call>>)

\* Decorators.skip_in_check_mode: in check mode the wrapper returns None
\* and the wrapped function is not called; otherwise the function runs: it
\* issues the call and returns the response of the NS1 client
skip_in_check_mode(chk, call, response) ==
    IF chk THEN Ret(N, <<>>) ELSE Ret(response, <<call>>)

(***************************************************************************)
(* The NS1 side.  The client is an external collaborator: an update is     *)
(* taken to merge the payload into the stored resource, a create to store  *)
(* the payload under a new id, and both to answer with the stored          *)
(* resource.  Writes are taken to succeed.                                 *)
(***************************************************************************)
\* variant: a nested object of the payload replaces the stored one
MergeShallow(stored, args) ==
    IF IsDict(stored) /\ IsDict(args)
    THEN D([k \in Keys(stored) \cup Keys(args) |->
              IF k \notin Keys(args) THEN stored.v[k] ELSE args.v[k]])
    ELSE args

RECURSIVE Merge(_, _)
Merge(stored, args) ==
    IF IsDict(stored) /\ IsDict(args)
    THEN D([k \in Keys(stored) \cup Keys(args) |->
              IF k \notin Keys(args) THEN stored.v[k]
              ELSE IF k \notin Keys(stored) THEN args.v[k]
              ELSE Merge(stored.v[k], args.v[k])])
    ELSE args

Id == S("id") :> S("i")
Stored(args) == D(Id @@ args.v)

\* a tsig key is stored under name; the client takes the name as key_name
TsigStored(stored, args) ==
    LET named == D((S("name") :> args.v[S("key_name")])
                   @@ Without(args, {S("key_name")}).v)
    IN  IF stored = N THEN named ELSE Merge(stored, named)

\* the stored resource after a call
Applied(stored, call) ==
    CASE call.op = "delete" -> N
      [] call.op # "delete" /\ call.target = "tsig" -> TsigStored(stored, call.args)
      [] call.op = "create" /\ call.target # "tsig" -> Stored(call.args)
      [] call.op = "update" /\ call.target # "tsig" -> Merge(stored, call.args)

\* the stored resource after the calls of issued, in order
RECURSIVE RemoteAfter(_, _)
RemoteAfter(stored, issued) ==
    IF issued = <<>> THEN stored
    ELSE RemoteAfter(Applied(stored, Head(issued)), Tail(issued))

\* d.get(k)
Get(d, k) == IF k \in Keys(d) THEN d.v[k] ELSE N
\* yaml.safe_dump(x): a text that renders x
Yaml(x) == [t |-> "yaml", of |-> x]
\* `if x:` of a dict or None
PyTruthy(x) == x # N /\ (IsDict(x) => Truthy(x))

\* what present() and absent() hand back to exec_module: the changed flag
\* and the resource object; with them, the calls issued on the way
Res(chg, obj, issued) == [t |-> "res", changed |-> chg, obj |-> obj, calls |-> issued]
\* the invocation ends with exit_json(**res)
ExitJson(r, res) ==
    [t |-> "exit", changed |-> r.changed, obj |-> r.obj, calls |-> r.calls, result |-> res]


(***************************************************************************)
(* library/ns1_zone.py: get_changed_params, update, create, delete,        *)
(* present, update_on_change, absent, build_result.                        *)
(***************************************************************************)
\* variant: the diff is left as diff_params computed it
PruneNothing(hv, wv, computed) == computed

\* lines 454-466: the secondaries of primary are compared as by
\* diff_in_secondaries and dropped from the diff when they do not differ
PruneSecondaries(hv, wv, computed) ==
    LET primary == S("primary")
        secondaries == S("secondaries")
    IN  IF ~(primary \in Keys(hv) /\ primary \in Keys(computed)) THEN computed
        \* .get of a value that is no dict is an AttributeError
        ELSE IF ~IsDict(hv.v[primary]) \/ ~IsDict(wv.v[primary]) THEN Raise
        ELSE LET differ == diff_in_secondaries(Get(hv.v[primary], secondaries),
                                               Get(wv.v[primary], secondaries))
             IN  IF differ.t # "bool" THEN differ
                 ELSE IF differ.v THEN computed
                 ELSE LET pruned == Without(computed.v[primary], {secondaries})
                      IN  IF Truthy(pruned) THEN With(computed, primary, pruned)
                          ELSE Without(computed, {primary})

\* get_changed_params(have, want), lines 451-466 (ns1_zone.py) and 244-257
\* (ns1_tsig.py): the diff, or Raise, or a fail_json
get_changed_params(hv, wv) ==
    LET computed == diff_params(hv, wv)
    IN  IF computed = Raise THEN Raise ELSE PruneSecondaries(hv, wv, computed)

\* lines 471-476: have with the changes applied, for the diff report
After(hv, computed) ==
    D([param \in Keys(hv) |->
         IF param \notin Keys(computed) THEN hv.v[param] ELSE computed.v[param]])

\* lines 468-490 of get_changed_params of ns1_zone.py: the diff report
result_diff(hv, computed, _diff) ==
    IF _diff
    THEN D((S("before") :> Yaml(hv)) @@ (S("after") :> Yaml(After(hv, computed))))
    ELSE EmptyDict

zone_update(chk, zone, args) ==
    skip_in_check_mode(chk, Call("update", "zone", args),
                       Applied(zone, Call("update", "zone", args)))
zone_create(chk, args) ==
    skip_in_check_mode(chk, Call("create", "zone", args),
                       Applied(N, Call("create", "zone", args)))
zone_delete(chk, zone) ==
    skip_in_check_mode(chk, Call("delete", "zone", N), N)

\* variant: the update is issued whether or not there is a diff
zone_update_on_change_always(chk, zone, computed) ==
    IF ~chk
    THEN Res(TRUE, zone_update(chk, zone, computed).ret,
             zone_update(chk, zone, computed).calls)
    ELSE Res(Truthy(computed), zone, <<>>)

\* update_on_change(zone, want) of ns1_zone.py, lines 632-636, given the
\* diff that get_changed_params computed
zone_update_on_change(chk, zone, computed) ==
    IF Truthy(computed) /\ ~chk
    THEN Res(TRUE, zone_update(chk, zone, computed).ret,
             zone_update(chk, zone, computed).calls)
    ELSE IF Truthy(computed) /\ chk THEN Res(TRUE, zone, <<>>)
    ELSE Res(FALSE, zone, <<>>)

\* lines 608-613 of present: every module parameter is put back into want
\* as given
ReAdded(wv, ps) ==
    D([param \in Keys(wv) \cup Keys(ps) |->
         IF param \in Keys(ps) THEN ps.v[param] ELSE wv.v[param]])

\* variant: the zone is created and then updated with the same arguments
zone_present_create_then_update(chk, wv) ==
    Res(TRUE, zone_update(chk, zone_create(chk, wv).ret, wv).ret,
        zone_create(chk, wv).calls \o zone_update(chk, zone_create(chk, wv).ret, wv).calls)

\* lines 614-618 of present: NS1 has no such zone
zone_present_create(chk, wv) ==
    Res(TRUE, zone_create(chk, wv).ret, zone_create(chk, wv).calls)

\* absent(zone) of ns1_zone.py, and lines 586-587 of exec_module
zone_absent(chk, zone) ==
    IF zone # N
    THEN Res(TRUE, EmptyDict, zone_delete(chk, zone).calls)
    ELSE Res(FALSE, EmptyDict, <<>>)

\* build_result(changed, zone, diff) of ns1_zone.py; an object that is
\* neither None nor {} is a Zone, which is true whatever its data
zone_build_result(chk, _diff, chg, zone, changed_params) ==
    D((S("changed") :> Bool(chg))
      @@ (IF Truthy(changed_params) /\ _diff
          THEN S("diff") :> changed_params ELSE <<>>)
      @@ (IF zone # N /\ zone # EmptyDict /\ ~chk
          THEN (S("id") :> zone.v[S("id")]) @@ (S("zone") :> zone) ELSE <<>>))

(***************************************************************************)
(* library/ns1_tsig.py: update, create, delete, present, update_on_change, *)
(* absent, build_result.                                                   *)
(***************************************************************************)
tsig_update(chk, tsig, args) ==
    skip_in_check_mode(chk, Call("update", "tsig", args),
                       Applied(tsig, Call("update", "tsig", args)))
tsig_create(chk, args) ==
    skip_in_check_mode(chk, Call("create", "tsig", args),
                       Applied(N, Call("create", "tsig", args)))
tsig_delete(chk, tsig) ==
    skip_in_check_mode(chk, Call("delete", "tsig", tsig.v[S("name")]), N)

\* update_on_change(tsig, want) of ns1_tsig.py, lines 387-389, given the
\* diff that get_changed_params computed
tsig_update_on_change(chk, tsig, changed_params) ==
    IF Truthy(changed_params)
    THEN Res(TRUE, tsig_update(chk, tsig, changed_params).ret,
             tsig_update(chk, tsig, changed_params).calls)
    ELSE Res(FALSE, tsig, <<>>)

\* line 373 of present: NS1 has no such key
tsig_present_create(chk, wv) ==
    Res(TRUE, tsig_create(chk, wv).ret, tsig_create(chk, wv).calls)

\* absent(tsig) of ns1_tsig.py, and line 355 of exec_module
tsig_absent(chk, tsig) ==
    IF PyTruthy(tsig)
    THEN Res(TRUE, EmptyDict, tsig_delete(chk, tsig).calls)
    ELSE Res(FALSE, EmptyDict, <<>>)

\* build_result(changed, tsig) of ns1_tsig.py
tsig_build_result(chk, chg, tsig) ==
    D((S("changed") :> Bool(chg))
      @@ (IF PyTruthy(tsig) /\ ~chk
          THEN Only(tsig, {S("name"), S("secret"), S("algorithm")}).v ELSE <<>>))

(***************************************************************************)
(* library/ns1_team.py.                                                    *)
(***************************************************************************)
\* ns1.rest.permissions._default_perms, two of its sections
default_perms ==
    D((S("dns") :> D((S("view_zones") :> I(0)) @@ (S("manage_zones") :> I(0))))
      @@ (S("data") :> D(S("manage_datasources") :> I(0))))

\* build_permissions: the defaults, overridden by the sections the task gives
build_permissions(ps) ==
    LET given == ps.v[S("permissions")]
    IN  D(S("permissions") :>
            IF given = N THEN default_perms
            ELSE D([key \in Keys(default_perms) |->
                      IF given.v[key] # N
                      THEN D(given.v[key].v @@ default_perms.v[key].v)
                      ELSE default_perms.v[key]]))

build_ip_whitelist(ps) ==
    D(S("ip_whitelist") :>
        IF ps.v[S("ip_whitelist")] # N THEN ps.v[S("ip_whitelist")] ELSE L(<<>>))

build_changes(ps) ==
    D((S("name") :> Get(ps, S("name")))
      @@ build_permissions(ps).v @@ build_ip_whitelist(ps).v)

team_update(chk, before, built_changes) ==
    skip_in_check_mode(chk, Call("update", "team", built_changes),
                       Applied(before, Call("update", "team", built_changes)))
team_create(chk, built_changes) ==
    skip_in_check_mode(chk, Call("create", "team", built_changes),
                       Applied(N, Call("create", "team", built_changes)))
team_delete(chk, team_id) ==
    skip_in_check_mode(chk, Call("delete", "team", team_id), N)

\* present(before, team_id) of ns1_team.py, given build_changes(); team_id
\* is before["id"], or None when no team has the name
team_present(chk, before, built_changes) ==
    LET team == IF chk THEN Ret(built_changes, <<>>)
                ELSE IF before = N THEN team_create(chk, built_changes)
                ELSE team_update(chk, before, built_changes)
    IN  Res(team.ret # before, team.ret, team.calls)

\* absent(team_id) of ns1_team.py, and exec_module's team = {}
team_absent(chk, before) ==
    IF before = N THEN Res(FALSE, EmptyDict, <<>>)
    ELSE Res(TRUE, EmptyDict, team_delete(chk, before.v[S("id")]).calls)

\* the ip_whitelist entries as remove_ids leaves them: `del entry["id"]`
\* entry by entry, until an entry has no id (the KeyError ends the loop)
WhitelistWithoutIds(q) ==
    [i \in DOMAIN q |->
        IF \A j \in 1..i : S("id") \in Keys(q[j])
        THEN Without(q[i], {S("id")}) ELSE q[i]]

\* remove_ids, for one of before and after
IdsRemoved(v) ==
    LET w == Without(v, {S("id")})
    IN  IF S("ip_whitelist") \notin Keys(w) THEN w
        ELSE With(w, S("ip_whitelist"), L(WhitelistWithoutIds(w.v[S("ip_whitelist")].v)))

\* build_result and remove_ids of ns1_team.py: result["diff"] is only there
\* in diff mode, and remove_ids reads it in any mode (KeyError)
team_build_result(_diff, chg, team, before, team_name) ==
    IF ~_diff THEN Raise
    ELSE D((S("changed") :> Bool(chg))
           @@ (S("diff") :>
                 D((S("before") :> IdsRemoved(IF before # N THEN before ELSE EmptyDict))
                   @@ (S("after") :> IdsRemoved(IF team # N THEN team ELSE EmptyDict))
                   @@ (S("team") :> team_name))))

\* str.lower() on the names of the model
Lower(name) == IF name = S("T") THEN S("t") ELSE name

\* check_existence(team_name): the team of the list with that name, case
\* ignored, or None
check_existence(stored, team_name) ==
    IF stored # N /\ Lower(stored.v[S("name")]) = Lower(team_name) THEN stored ELSE N

(***************************************************************************)
(* library/ns1_record.py.                                                  *)
(***************************************************************************)
\* RECORD_KEYS_MAP, three of its keys: whether the key is appendable
RECORD_KEYS_MAP ==
    (S("answers") :> TRUE) @@ (S("filters") :> TRUE) @@ (S("ttl") :> FALSE)

\* one element of a list parameter without its None values
WithoutNone(subparam) ==
    D([key \in {k \in Keys(subparam) : subparam.v[k] # N} |-> subparam.v[key]])

\* filter_empty_subparams(param_name): of a list parameter, the dict
\* elements without their None values; any other parameter as it is
filter_empty_subparams(ps, param_name) ==
    LET param == Get(ps, param_name)
    IN  IF IsList(param)
        THEN LET dicts == SelectSeq(param.v, IsDict)
             IN  L([i \in DOMAIN dicts |-> WithoutNone(dicts[i])])
        ELSE param

\* api_params(): the parameters of RECORD_KEYS_MAP other than answers that
\* are not None
record_api_params(ps) ==
    D([key \in {k \in DOMAIN RECORD_KEYS_MAP : k # S("answers") /\ Get(ps, k) # N} |->
         ps.v[key]])

RECURSIVE remove_ids(_)
\* remove_ids(d) of sanitize_record: d without the id fields, at every depth
remove_ids(d) ==
    IF IsDict(d) THEN D([k \in Keys(d) \ {S("id")} |-> remove_ids(d.v[k])])
    ELSE IF IsList(d) THEN L([i \in DOMAIN d.v |-> remove_ids(d.v[i])])
    ELSE d

\* sanitize_record(record): without ids, and without the feeds of answers
sanitize_record(record) ==
    LET clean == remove_ids(record)
    IN  With(clean, S("answers"),
             L([i \in DOMAIN clean.v[S("answers")].v |->
                  Without(clean.v[S("answers")].v[i], {S("feeds")})]))

\* variant: the task's elements are added whether or not they exist
AppendedAll(existing, input_data) == L(existing.v \o input_data.v)

\* lines 484-490 of update: the existing elements, then the task's elements
\* that are not among them
Appended(existing, input_data) ==
    L(existing.v \o SelectSeq(input_data.v, LAMBDA input_obj : input_obj \notin Elems(existing)))

\* lines 477-490 of update: what the task asks for the key
RecordInput(ps, record_data, key) ==
    LET input_data == filter_empty_subparams(ps, key)
    IN  IF input_data # N /\ RECORD_KEYS_MAP[key]
           /\ Get(ps, S("record_mode")) = S("append")
        THEN Appended(record_data.v[key], input_data)
        ELSE input_data

\* variant: lists are compared by their elements, whatever the order
record_args_unordered(ps, record_data) ==
    D([key \in {k \in DOMAIN RECORD_KEYS_MAP :
                   /\ filter_empty_subparams(ps, k) # N
                   /\ IF IsList(RecordInput(ps, record_data, k))
                      THEN Elems(RecordInput(ps, record_data, k)) # Elems(record_data.v[k])
                      ELSE RecordInput(ps, record_data, k) # record_data.v[k]} |->
         RecordInput(ps, record_data, key)])

\* lines 476-494 of update: args, the keys to change with their new values
record_args(ps, record_data) ==
    D([key \in {k \in DOMAIN RECORD_KEYS_MAP :
                   /\ filter_empty_subparams(ps, k) # N
                   /\ RecordInput(ps, record_data, k) # record_data.v[k]} |->
         RecordInput(ps, record_data, key)])

\* record_exit(after, before, changed, record)
record_exit(_diff, after, before, chg, record) ==
    IF _diff
    THEN D((S("diff") :>
              D((S("before") :> IF before # N THEN Yaml(before) ELSE EmptyDict)
                @@ (S("after") :> IF after # N THEN Yaml(after) ELSE EmptyDict)))
           @@ (S("changed") :> Bool(chg))
           @@ (IF record # N THEN S("record") :> record ELSE <<>>))
    ELSE D(S("changed") :> Bool(chg))

\* variant: the update is sent whether or not an argument was collected
record_update_always(chk, _diff, record, ps) ==
    LET record_data == sanitize_record(record)
        args == record_args(ps, record_data)
        after_changes ==
            D([k \in Keys(record_data) |->
                 IF k \in Keys(args) THEN args.v[k] ELSE record_data.v[k]])
        call == Call("update", "record", args)
    IN  IF chk
        THEN ExitJson(Res(Truthy(args), record, <<>>),
                      record_exit(_diff, after_changes, record_data, Truthy(args), record))
        ELSE ExitJson(Res(TRUE, Applied(record, call), <<call>>),
                      record_exit(_diff, after_changes, record_data, TRUE,
                                  Applied(record, call)))

\* update(record) of ns1_record.py
record_update(chk, _diff, record, ps) ==
    LET record_data == sanitize_record(record)
        args == record_args(ps, record_data)
        after_changes ==
            D([k \in Keys(record_data) |->
                 IF k \in Keys(args) THEN args.v[k] ELSE record_data.v[k]])
        call == Call("update", "record", args)
    IN  IF chk
        THEN ExitJson(Res(Truthy(args), record, <<>>),
                      record_exit(_diff, after_changes, record_data, Truthy(args), record))
        ELSE IF Truthy(args)
        THEN ExitJson(Res(TRUE, Applied(record, call), <<call>>),
                      record_exit(_diff, after_changes, record_data, TRUE,
                                  Applied(record, call)))
        ELSE ExitJson(Res(FALSE, record, <<>>), record_exit(_diff, N, N, FALSE, record))

\* variant: check mode reports no change for a record that would be deleted
record_delete_unreported(chk, _diff, record) ==
    IF chk
    THEN ExitJson(Res(FALSE, record, <<>>), record_exit(_diff, N, record, FALSE, record))
    ELSE ExitJson(Res(TRUE, record, <<Call("delete", "record", N)>>),
                  record_exit(_diff, N, record, TRUE, record))

\* lines 570-580 of exec_module: the record is found and state is absent
record_delete(chk, _diff, record) ==
    IF chk
    THEN ExitJson(Res(TRUE, record, <<>>), record_exit(_diff, N, record, TRUE, record))
    ELSE ExitJson(Res(TRUE, record, <<Call("delete", "record", N)>>),
                  record_exit(_diff, N, record, TRUE, record))

\* lines 586-610 of exec_module: the record is not found and state is present
record_create(chk, _diff, ps) ==
    LET call == Call("create", "record",
                     D((S("answers") :> filter_empty_subparams(ps, S("answers")))
                       @@ record_api_params(ps).v))
    IN  IF chk
        THEN ExitJson(Res(TRUE, ps, <<>>), record_exit(_diff, ps, N, TRUE, ps))
        ELSE ExitJson(Res(TRUE, Applied(N, call), <<call>>),
                      record_exit(_diff, Applied(N, call), N, TRUE, Applied(N, call)))

(***************************************************************************)
(* library/ns1_monitor_job.py.                                             *)
(***************************************************************************)
\* MONITOR_KEYS_MAP, seven of its keys
MONITOR_KEYS_MAP ==
    {S("active"), S("mute"), S("frequency"), S("policy"), S("regions"), S("config"),
     S("rules")}

\* the order of the region names of the model
RegionRank(region) == IF region = S("a") THEN 1 ELSE 2
\* sorted(regions)
Sorted(regions) ==
    L(CHOOSE q \in Perms(regions.v) :
        \A i, j \in DOMAIN q : i < j => RegionRank(q[i]) <= RegionRank(q[j]))

\* int(x): an int as it is, a str of digits as the number it writes; a
\* ValueError or TypeError otherwise
PyInt(x) ==
    CASE x.t = "int" -> x
      [] x = S("0") -> I(0)
      [] x = S("1") -> I(1)
      [] OTHER -> Raise

\* api_params() of ns1_monitor_job.py
monitor_api_params(ps) ==
    LET given == D([key \in {k \in MONITOR_KEYS_MAP : Get(ps, k) # N} |-> ps.v[key]])
        regions == IF Get(ps, S("regions")) = N
                   THEN With(given, S("regions"), L(<<>>)) ELSE given
    IN  IF Get(ps, S("rules")) = N THEN With(regions, S("rules"), L(<<>>)) ELSE regions

\* sanitize_job(job): without the fields NS1 generates, the config without
\* the options NS1 fills in, the regions sorted
sanitize_job(job) ==
    LET kept == Without(job, {S("id"), S("name"), S("status"), S("created_at"),
                              S("updated_at"), S("last_run"), S("region_scope")})
        config == IF Get(kept, S("config")) # N
                  THEN With(kept, S("config"),
                            Without(kept.v[S("config")],
                                    {S("follow_redirect"), S("ipv6"), S("user_agent"),
                                     S("response_codes")}))
                  ELSE kept
    IN  IF Get(config, S("regions")) # N
        THEN With(config, S("regions"), Sorted(config.v[S("regions")]))
        ELSE config

\* lines 417-428 of update_job: the config the task gives, normalized; a
\* follow_redirect or ipv6 that is False is dropped (a bool of the config is
\* the int 0 or 1 here)
NormalizedConfig(config) ==
    LET timeouts == {S("idle_timeout"), S("connect_timeout")} \cap Keys(config)
        dropped == {k \in {S("follow_redirect"), S("ipv6")} : Get(config, k) = I(0)}
                   \cup {k \in {S("user_agent")} :
                           Get(config, k) = S("NS1 HTTP Monitoring Job")}
    IN  IF \E k \in timeouts : PyInt(config.v[k]) = Raise THEN Raise
        ELSE D([k \in Keys(config) \ dropped |->
                  IF k \in timeouts THEN PyInt(config.v[k]) ELSE config.v[k]])

\* lines 411-428 of update_job: the value the task gives for key, normalized
Normalized(key, input_data) ==
    IF key = S("regions") /\ IsList(input_data) THEN Sorted(input_data)
    ELSE IF key = S("config") THEN NormalizedConfig(input_data)
    ELSE input_data

\* lines 405-430 of update_job: full_input_args, or Raise
full_input_args(ps) ==
    LET given == {k \in MONITOR_KEYS_MAP : Get(ps, k) # N}
    IN  IF \E k \in given : Normalized(k, ps.v[k]) = Raise THEN Raise
        ELSE D([key \in given |-> Normalized(key, ps.v[key])])

\* lines 432-438 of update_job: a key the task gives differs from the job's
\* value, or the job lacks it
JobChanged(current_data, input_args) ==
    \E key \in Keys(input_args) :
        key \notin Keys(current_data) \/ input_args.v[key] # current_data.v[key]

\* update_job(job_obj) and lines 486-493 of exec_module; q_installed: the
\* import of q at the head of update_job succeeds
update_job(chk, q_installed, job_obj, ps) ==
    LET current_data == sanitize_job(job_obj)
        input_args == full_input_args(ps)
        update_payload ==
            D((S("name") :> Get(ps, S("name"))) @@ (S("job_type") :> Get(ps, S("job_type")))
              @@ input_args.v @@ job_obj.v)
        call == Call("update", "monitor_job", update_payload)
    IN  IF ~q_installed \/ input_args = Raise THEN Fail("Failed to update monitor job")
        ELSE IF ~JobChanged(current_data, input_args)
        THEN ExitJson(Res(FALSE, job_obj, <<>>),
                      D((S("changed") :> Bool(FALSE)) @@ (S("job") :> job_obj)))
        ELSE IF chk
        THEN ExitJson(Res(TRUE, N, <<>>),
                      D((S("changed") :> Bool(TRUE))
                        @@ (S("msg") :> S("Monitor job would be updated."))))
        ELSE ExitJson(Res(TRUE, Applied(job_obj, call), <<call>>),
                      D((S("changed") :> Bool(TRUE)) @@ (S("job") :> Applied(job_obj, call))))

\* create_job() and lines 494-501 of exec_module
create_job(chk, ps) ==
    LET body == D(monitor_api_params(ps).v
                  @@ [k \in {S("name"), S("job_type"), S("active"), S("mute"),
                             S("frequency"), S("policy"), S("config"), S("rules")} |->
                        Get(ps, k)])
        call == Call("create", "monitor_job", WithoutNone(body))
    IN  IF chk
        THEN ExitJson(Res(TRUE, N, <<>>),
                      D((S("changed") :> Bool(TRUE))
                        @@ (S("msg") :> S("Monitor job would be created."))))
        ELSE ExitJson(Res(TRUE, Applied(N, call), <<call>>),
                      D((S("changed") :> Bool(TRUE)) @@ (S("job") :> Applied(N, call))))

\* lines 474-483 of exec_module: state is absent
monitor_absent(chk, job_obj) ==
    IF ~PyTruthy(job_obj)
    THEN ExitJson(Res(FALSE, N, <<>>),
                  D((S("changed") :> Bool(FALSE))
                    @@ (S("msg") :> S("Monitor job already absent."))))
    ELSE IF chk
    THEN ExitJson(Res(TRUE, N, <<>>),
                  D((S("changed") :> Bool(TRUE))
                    @@ (S("msg") :> S("Monitor job would be deleted."))))
    ELSE ExitJson(Res(TRUE, N, <<Call("delete", "monitor_job", Get(job_obj, S("id")))>>),
                  D((S("changed") :> Bool(TRUE)) @@ (S("msg") :> S("Monitor job deleted."))))

(***************************************************************************)
(* library/ns1_notifier_list.py.                                           *)
(***************************************************************************)
\* sanitize_list(list_data): without the fields NS1 generates
sanitize_list(list_data) ==
    Without(list_data, {S("id"), S("created_at"), S("updated_at"),
                        S("created_by"), S("updated_by")})

\* lines 183-186 of update_list: the payload the task asks for
desired_payload(ps) ==
    sanitize_list(D((S("name") :> Get(ps, S("name")))
                    @@ (S("notify_list") :> Get(ps, S("notify_list")))))

\* update_list(current_list) and lines 223-229 of exec_module
update_list(chk, current_list, ps) ==
    LET call == Call("update", "notifier_list", desired_payload(ps))
    IN  IF desired_payload(ps) = sanitize_list(current_list)
        THEN ExitJson(Res(FALSE, current_list, <<>>),
                      D((S("changed") :> Bool(FALSE)) @@ (S("list") :> current_list)))
        ELSE IF chk
        THEN ExitJson(Res(TRUE, N, <<>>),
                      D((S("changed") :> Bool(TRUE))
                        @@ (S("msg") :> S("Notification list would be updated."))))
        ELSE ExitJson(Res(TRUE, Applied(current_list, call), <<call>>),
                      D((S("changed") :> Bool(TRUE))
                        @@ (S("job") :> Applied(current_list, call))))

\* create_list() and lines 230-236 of exec_module
create_list(chk, ps) ==
    LET call == Call("create", "notifier_list",
                     D((S("name") :> Get(ps, S("name")))
                       @@ (S("notify_list") :> Get(ps, S("notify_list")))))
    IN  IF chk
        THEN ExitJson(Res(TRUE, N, <<>>),
                      D((S("changed") :> Bool(TRUE))
                        @@ (S("msg") :> S("Notification list would be created."))))
        ELSE ExitJson(Res(TRUE, Applied(N, call), <<call>>),
                      D((S("changed") :> Bool(TRUE)) @@ (S("job") :> Applied(N, call))))

\* lines 211-220 of exec_module: state is absent
notifier_absent(chk, list_obj) ==
    IF ~PyTruthy(list_obj)
    THEN ExitJson(Res(FALSE, N, <<>>),
                  D((S("changed") :> Bool(FALSE))
                    @@ (S("msg") :> S("Notification list already absent."))))
    ELSE IF chk
    THEN ExitJson(Res(TRUE, N, <<>>),
                  D((S("changed") :> Bool(TRUE))
                    @@ (S("msg") :> S("Notification list would be deleted."))))
    ELSE ExitJson(Res(TRUE, N, <<Call("delete", "notifier_list", Get(list_obj, S("id")))>>),
                  D((S("changed") :> Bool(TRUE))
                    @@ (S("msg") :> S("Notification list deleted."))))

(***************************************************************************)
(* library/ns1_data_feed.py.                                               *)
(***************************************************************************)
\* lines 158-165 of exec_module and create_feed: state is present
feed_present(chk, feed_data, ps) ==
    LET call == Call("create", "data_feed",
                     D((S("name") :> Get(ps, S("name")))
                       @@ (S("config") :> Get(ps, S("config")))))
    IN  IF PyTruthy(feed_data)
        THEN ExitJson(Res(FALSE, feed_data, <<>>),
                      D((S("changed") :> Bool(FALSE))
                        @@ (S("msg") :> S("Data feed present (Update logic simplified)."))))
        ELSE IF chk
        THEN ExitJson(Res(TRUE, N, <<>>),
                      D((S("changed") :> Bool(TRUE))
                        @@ (S("msg") :> S("Data feed would be created."))))
        ELSE ExitJson(Res(TRUE, Applied(N, call), <<call>>),
                      D((S("changed") :> Bool(TRUE)) @@ (S("feed") :> Applied(N, call))))

\* lines 151-156 of exec_module and delete_feed: state is absent
feed_absent(chk, feed_data) ==
    IF ~PyTruthy(feed_data)
    THEN ExitJson(Res(FALSE, N, <<>>),
                  D((S("changed") :> Bool(FALSE))
                    @@ (S("msg") :> S("Data feed already absent."))))
    ELSE IF chk
    THEN ExitJson(Res(TRUE, N, <<>>),
                  D((S("changed") :> Bool(TRUE))
                    @@ (S("msg") :> S("Data feed would be deleted."))))
    ELSE ExitJson(Res(TRUE, N, <<Call("delete", "data_feed", Get(feed_data, S("id")))>>),
                  D((S("changed") :> Bool(TRUE)) @@ (S("msg") :> S("Data feed deleted."))))

(***************************************************************************)
(* Invocations of the modules.  The inputs are the task parameters, the    *)
(* resource as NS1 stores it, check mode and diff mode.                    *)
(***************************************************************************)
States == {S("present"), S("absent")}

\* secondaries of a zone: two peers, one of them also with the notify flag
PeerA == D(IdFields(<<S("a"), I(1)>>))
PeerB == D(IdFields(<<S("b"), I(1)>>))
PeerANotify == D(IdFields(<<S("a"), I(1)>>) @@ (S("notify") :> I(1)))
ZoneSecondaries ==
    {L(<<>>), L(<<PeerA>>), L(<<PeerA, PeerB>>), L(<<PeerB, PeerA>>),
     L(<<PeerANotify, PeerB>>), L(<<PeerA, PeerANotify>>)}
StoredZoneSecondaries ==
    {L(<<>>), L(<<PeerA>>), L(<<PeerA, PeerB>>), L(<<PeerANotify, PeerB>>)}

ZoneParams ==
    {D((S("state") :> st) @@ (S("name") :> S("z")) @@ (S("ttl") :> ttl)
       @@ (S("networks") :> nets) @@ (S("primary") :> primary)) :
        st \in States,
        ttl \in IntVals \cup {N},
        nets \in {N, L(<<I(1), I(2)>>), L(<<I(2), I(1)>>)},
        primary \in {N} \cup
            {D((S("enabled") :> e) @@ (S("secondaries") :> secs)) :
                e \in {N, I(1)}, secs \in ZoneSecondaries \cup {N}}}
StoredZones ==
    {D(Id @@ (S("ttl") :> ttl) @@ (S("networks") :> L(<<I(1), I(2)>>)) @@ primary) :
        ttl \in IntVals,
        primary \in OptField(S("primary"),
            {D((S("enabled") :> I(1)) @@ (S("secondaries") :> secs)) :
                secs \in StoredZoneSecondaries})}

TsigParams ==
    {D((S("state") :> st) @@ (S("key_name") :> S("k"))
       @@ (S("algorithm") :> alg) @@ (S("secret") :> sec)) :
        st \in States, alg \in {S("a"), S("b")}, sec \in {S("a"), S("b")}}
StoredTsigs ==
    {D((S("name") :> S("k")) @@ (S("algorithm") :> alg) @@ (S("secret") :> sec)) :
        alg \in {S("a"), S("b")}, sec \in {S("a"), S("b")}}

WhitelistEntry == D(S("name") :> S("w"))
TeamParams ==
    {D((S("state") :> st) @@ (S("name") :> S("t"))
       @@ (S("permissions") :> perms) @@ (S("ip_whitelist") :> wl)) :
        st \in States,
        perms \in {N,
                   D((S("dns") :> N) @@ (S("data") :> N)),
                   D((S("dns") :> D(S("view_zones") :> I(1))) @@ (S("data") :> N))},
        wl \in {N, L(<<WhitelistEntry>>)}}
StoredTeams ==
    {D(Id @@ (S("name") :> name) @@ (S("permissions") :> perms)
       @@ (S("ip_whitelist") :> wl)) :
        name \in {S("t"), S("T")},
        perms \in {default_perms,
                   Merge(default_perms, D(S("dns") :> D(S("view_zones") :> I(1))))},
        wl \in {L(<<>>), L(<<D(Id @@ WhitelistEntry.v)>>)}}

\* answers as the task gives them (options not given are None) and as NS1
\* stores them (with an id, and feeds)
AnswerGiven(a) == D((S("answer") :> L(<<S(a)>>)) @@ (S("meta") :> N))
AnswerStored(a) == D(Id @@ (S("answer") :> L(<<S(a)>>)) @@ (S("feeds") :> L(<<>>)))
FilterGiven(f) == D((S("filter") :> S(f)) @@ (S("config") :> N))
FilterStored(f) == D(S("filter") :> S(f))
RecordParams ==
    {D((S("state") :> st) @@ (S("name") :> S("r")) @@ (S("zone") :> S("z"))
       @@ (S("type") :> S("A")) @@ (S("ignore_missing_zone") :> ign)
       @@ (S("record_mode") :> mode) @@ (S("answers") :> L(ans))
       @@ (S("filters") :> flt) @@ (S("ttl") :> ttl)) :
        st \in States, ign \in {I(0), I(1)}, mode \in {S("purge"), S("append")},
        ans \in {<<AnswerGiven("a")>>, <<AnswerGiven("b")>>,
                 <<AnswerGiven("b"), AnswerGiven("a")>>},
        flt \in {N, L(<<>>), L(<<FilterGiven("f")>>),
                 L(<<FilterGiven("g"), FilterGiven("f")>>)},
        ttl \in IntVals}
StoredRecords ==
    {D(Id @@ (S("answers") :> L(ans)) @@ (S("filters") :> flt) @@ (S("ttl") :> ttl)) :
        ans \in {<<AnswerStored("a")>>, <<AnswerStored("a"), AnswerStored("b")>>},
        flt \in {L(<<>>), L(<<FilterStored("f")>>),
                 L(<<FilterStored("f"), FilterStored("g")>>)},
        ttl \in IntVals}
\* NS1 has no such zone
NoZone == [t |-> "nozone"]

Url == S("url") :> S("u")
MonitorParams ==
    {D((S("state") :> st) @@ (S("name") :> S("j")) @@ (S("job_type") :> S("http"))
       @@ (S("active") :> act) @@ (S("mute") :> N) @@ (S("policy") :> policy)
       @@ (S("frequency") :> freq) @@ (S("regions") :> regions)
       @@ (S("config") :> D(Url @@ config)) @@ (S("rules") :> L(<<>>))) :
        st \in States, act \in {N, I(1)}, policy \in {N, S("quorum")}, freq \in IntVals,
        regions \in {N, L(<<S("a"), S("b")>>), L(<<S("b"), S("a")>>)},
        config \in {<<>>, S("idle_timeout") :> I(1), S("idle_timeout") :> S("1"),
                    S("idle_timeout") :> S("x"), S("follow_redirect") :> I(0),
                    S("follow_redirect") :> I(1)}}
StoredJobs ==
    {D(Id @@ (S("name") :> S("j")) @@ (S("job_type") :> S("http"))
       @@ (S("status") :> S("up")) @@ (S("active") :> I(1))
       @@ (S("frequency") :> freq) @@ (S("regions") :> regions)
       @@ (S("config") :> D(Url @@ config)) @@ (S("rules") :> L(<<>>))) :
        freq \in IntVals,
        regions \in {L(<<S("a"), S("b")>>), L(<<S("b"), S("a")>>)},
        config \in {(S("follow_redirect") :> I(1)), (S("idle_timeout") :> I(1)),
                    (S("idle_timeout") :> I(1)) @@ (S("follow_redirect") :> I(1))}}

Recipient(a) == D((S("type") :> S("email")) @@ (S("config") :> D(S("email") :> S(a))))
NotifierParams ==
    {D((S("state") :> st) @@ (S("name") :> S("n")) @@ (S("notify_list") :> L(recipients))) :
        st \in States,
        recipients \in {<<Recipient("a")>>, <<Recipient("a"), Recipient("b")>>,
                        <<Recipient("b"), Recipient("a")>>}}
StoredNotifiers ==
    {D(Id @@ (S("name") :> S("n")) @@ (S("notify_list") :> L(recipients))) :
        recipients \in {<<Recipient("a")>>, <<Recipient("a"), Recipient("b")>>}}

FeedParams ==
    {D((S("state") :> st) @@ (S("source_id") :> S("s")) @@ (S("name") :> S("f"))
       @@ (S("config") :> D(S("jobid") :> job))) :
        st \in States, job \in {S("a"), S("b")}}
StoredFeeds ==
    {D(Id @@ (S("name") :> S("f")) @@ (S("config") :> D(S("jobid") :> job))) :
        job \in {S("a"), S("b")}}

Modules == {"zone", "tsig", "team", "record", "monitor_job", "notifier_list", "data_feed"}
ParamsOf(m) ==
    CASE m = "zone" -> ZoneParams
      [] m = "tsig" -> TsigParams
      [] m = "team" -> TeamParams
      [] m = "record" -> RecordParams
      [] m = "monitor_job" -> MonitorParams
      [] m = "notifier_list" -> NotifierParams
      [] m = "data_feed" -> FeedParams
StoredOf(m) ==
    CASE m = "zone" -> StoredZones
      [] m = "tsig" -> StoredTsigs
      [] m = "team" -> StoredTeams
      [] m = "record" -> StoredRecords \cup {NoZone}
      [] m = "monitor_job" -> StoredJobs
      [] m = "notifier_list" -> StoredNotifiers
      [] m = "data_feed" -> StoredFeeds

InitRun ==
    /\ pc = "start"
    /\ module \in Modules
    /\ params \in ParamsOf(module)
    /\ remote \in StoredOf(module) \cup {N}
    /\ check_mode \in BOOLEAN
    /\ diff_mode \in BOOLEAN
    /\ have = N /\ want = N /\ out = N
    /\ calls = <<>> /\ changed = FALSE /\ update_diff = N /\ result = N

State == params.v[S("state")]
At(m, place) == pc = place /\ module = m

\* the invocation ends: exit_json, fail_json, or an exception that nothing
\* catches
Finish(e) ==
    IF e.t = "exit"
    THEN /\ pc' = "done"
         /\ changed' = e.changed
         /\ out' = e.obj
         /\ calls' = calls \o e.calls
         /\ remote' = RemoteAfter(remote, e.calls)
         /\ result' = e.result
    ELSE /\ pc' = (IF e = Raise THEN "raised" ELSE "failed")
         /\ result' = e
         /\ UNCHANGED <<changed, out, calls, remote>>

\* the answer of NS1 to a read: the resource, or an error other than 404
Answers == {"ok", "error"}

\* variant: an error of the read is taken for "no such resource"
FetchMasking(m, found, on_error) ==
    /\ At(m, "start")
    /\ \E answer \in Answers :
          /\ have' = (IF answer = "ok" THEN found ELSE N)
          /\ pc' = "fetched"
          /\ UNCHANGED result
    /\ UNCHANGED <<params, want, out, module, check_mode, diff_mode, remote,
                   calls, changed, update_diff>>

\* a read of the resource: found is what the module makes of the stored
\* resource, on_error how the invocation ends on an error other than 404
Fetch(m, found, on_error) ==
    /\ At(m, "start")
    /\ \E answer \in Answers :
          IF answer = "ok"
          THEN /\ have' = found
               /\ pc' = "fetched"
               /\ UNCHANGED result
          ELSE /\ pc' = (IF on_error = Raise THEN "raised" ELSE "failed")
               /\ result' = on_error
               /\ UNCHANGED have
    /\ UNCHANGED <<params, want, out, module, check_mode, diff_mode, remote,
                   calls, changed, update_diff>>

\* get_zone(name) of ns1_zone.py
GetZone == Fetch("zone", remote, Fail("error code"))
\* get_tsig(name) of ns1_tsig.py
GetTsig == Fetch("tsig", remote, Fail("error code"))
\* check_existence(team_name) of ns1_team.py: an error of the client is not
\* caught
CheckExistence == Fetch("team", check_existence(remote, params.v[S("name")]), Raise)
\* get_job() of ns1_monitor_job.py
GetJob == Fetch("monitor_job", remote, Fail("Error retrieving monitor list"))
\* get_list() of ns1_notifier_list.py
GetList == Fetch("notifier_list", remote, Fail("Error retrieving notification lists"))
\* get_feed(source_id, feed_name) of ns1_data_feed.py
GetFeed == Fetch("data_feed", remote, Fail("Error listing data feeds"))

\* present() of ns1_zone.py and ns1_tsig.py up to get_changed_params, for a
\* resource that exists: want is sanitized and compared with the resource
Compare(m) ==
    /\ At(m, "fetched") /\ State = S("present") /\ PyTruthy(have)
    /\ want' = sanitize_params(params)
    /\ \E computed \in {get_changed_params(have, want')} :
          IF IsDict(computed)
          THEN /\ update_diff' = computed
               /\ pc' = "compared"
               /\ UNCHANGED result
          ELSE /\ pc' = (IF computed = Raise THEN "raised" ELSE "failed")
               /\ result' = computed
               /\ UNCHANGED update_diff
    /\ UNCHANGED <<have, params, out, module, check_mode, diff_mode, remote,
                   calls, changed>>

ZoneCompare == Compare("zone")
TsigCompare == Compare("tsig")

\* update_on_change of ns1_zone.py from line 632, build_result, exit_json
ZoneUpdateOnChange ==
    /\ At("zone", "compared")
    /\ \E r \in {zone_update_on_change(check_mode, have, update_diff)} :
          Finish(ExitJson(r, zone_build_result(check_mode, diff_mode, r.changed, r.obj,
                              result_diff(have, update_diff, diff_mode))))
    /\ UNCHANGED <<have, params, want, module, check_mode, diff_mode, update_diff>>

\* present() of ns1_zone.py for a zone that does not exist
ZoneCreate ==
    /\ At("zone", "fetched") /\ State = S("present") /\ have = N
    /\ want' = ReAdded(sanitize_params(params), params)
    /\ \E r \in {zone_present_create(check_mode, want')} :
          Finish(ExitJson(r, zone_build_result(check_mode, diff_mode, r.changed, r.obj,
                              D((S("before") :> EmptyDict) @@ (S("after") :> want')))))
    /\ UNCHANGED <<have, params, module, check_mode, diff_mode, update_diff>>

ZoneAbsent ==
    /\ At("zone", "fetched") /\ State = S("absent")
    /\ \E r \in {zone_absent(check_mode, have)} :
          Finish(ExitJson(r, zone_build_result(check_mode, diff_mode, r.changed, r.obj,
                                               EmptyDict)))
    /\ UNCHANGED <<have, params, want, module, check_mode, diff_mode, update_diff>>

\* update_on_change of ns1_tsig.py from line 387, build_result, exit_json
TsigUpdateOnChange ==
    /\ At("tsig", "compared")
    /\ \E r \in {tsig_update_on_change(check_mode, have, update_diff)} :
          Finish(ExitJson(r, tsig_build_result(check_mode, r.changed, r.obj)))
    /\ UNCHANGED <<have, params, want, module, check_mode, diff_mode, update_diff>>

\* present() of ns1_tsig.py for a key that does not exist
TsigCreate ==
    /\ At("tsig", "fetched") /\ State = S("present") /\ ~PyTruthy(have)
    /\ want' = sanitize_params(params)
    /\ \E r \in {tsig_present_create(check_mode, want')} :
          Finish(ExitJson(r, tsig_build_result(check_mode, r.changed, r.obj)))
    /\ UNCHANGED <<have, params, module, check_mode, diff_mode, update_diff>>

TsigAbsent ==
    /\ At("tsig", "fetched") /\ State = S("absent")
    /\ \E r \in {tsig_absent(check_mode, have)} :
          Finish(ExitJson(r, tsig_build_result(check_mode, r.changed, r.obj)))
    /\ UNCHANGED <<have, params, want, module, check_mode, diff_mode, update_diff>>

\* the end of exec_module of ns1_team.py: build_result, then exit_json
TeamFinish(r) ==
    \E res \in {team_build_result(diff_mode, r.changed, r.obj, have, params.v[S("name")])} :
        IF res = Raise
        THEN /\ pc' = "raised"
             /\ result' = Raise
             /\ calls' = calls \o r.calls
             /\ remote' = RemoteAfter(remote, r.calls)
             /\ UNCHANGED <<changed, out>>
        ELSE Finish(ExitJson(r, res))

TeamPresent ==
    /\ At("team", "fetched") /\ State = S("present")
    /\ \E r \in {team_present(check_mode, have, build_changes(params))} : TeamFinish(r)
    /\ UNCHANGED <<have, params, want, module, check_mode, diff_mode, update_diff>>

TeamAbsent ==
    /\ At("team", "fetched") /\ State = S("absent")
    /\ \E r \in {team_absent(check_mode, have)} : TeamFinish(r)
    /\ UNCHANGED <<have, params, want, module, check_mode, diff_mode, update_diff>>

\* variant: a missing zone is ignored whatever the state asked for
RecordGetZoneLenient ==
    /\ At("record", "start")
    /\ \E answer \in Answers :
          IF answer = "error" THEN Finish(Fail("error code"))
          ELSE IF remote # NoZone
          THEN /\ pc' = "zone_loaded"
               /\ UNCHANGED <<changed, out, calls, remote, result>>
          ELSE IF params.v[S("ignore_missing_zone")] # I(0)
          THEN Finish(ExitJson(Res(FALSE, N, <<>>), D(S("changed") :> Bool(FALSE))))
          ELSE Finish(Fail("zone not found"))
    /\ UNCHANGED <<have, params, want, module, check_mode, diff_mode, update_diff>>

\* get_zone() of ns1_record.py and lines 562-566 of exec_module
RecordGetZone ==
    /\ At("record", "start")
    /\ \E answer \in Answers :
          IF answer = "error" THEN Finish(Fail("error code"))
          ELSE IF remote # NoZone
          THEN /\ pc' = "zone_loaded"
               /\ UNCHANGED <<changed, out, calls, remote, result>>
          ELSE IF params.v[S("ignore_missing_zone")] # I(0) /\ State = S("absent")
          THEN Finish(ExitJson(Res(FALSE, N, <<>>), D(S("changed") :> Bool(FALSE))))
          ELSE Finish(Fail("zone not found"))
    /\ UNCHANGED <<have, params, want, module, check_mode, diff_mode, update_diff>>

\* get_record(zone) of ns1_record.py
GetRecord ==
    /\ At("record", "zone_loaded")
    /\ \E answer \in Answers :
          IF answer = "ok"
          THEN /\ have' = remote
               /\ pc' = "fetched"
               /\ UNCHANGED result
          ELSE /\ pc' = "failed"
               /\ result' = Fail("error code")
               /\ UNCHANGED have
    /\ UNCHANGED <<params, want, out, module, check_mode, diff_mode, remote,
                   calls, changed, update_diff>>

\* exec_module of ns1_record.py: the record is found, state is present
RecordUpdate ==
    /\ At("record", "fetched") /\ State = S("present") /\ have # N
    /\ \E e \in {record_update(check_mode, diff_mode, have, params)} : Finish(e)
    /\ UNCHANGED <<have, params, want, module, check_mode, diff_mode, update_diff>>

\* the record is found, state is absent
RecordDelete ==
    /\ At("record", "fetched") /\ State = S("absent") /\ have # N
    /\ \E e \in {record_delete(check_mode, diff_mode, have)} : Finish(e)
    /\ UNCHANGED <<have, params, want, module, check_mode, diff_mode, update_diff>>

\* the record is not found, state is present
RecordCreate ==
    /\ At("record", "fetched") /\ State = S("present") /\ have = N
    /\ \E e \in {record_create(check_mode, diff_mode, params)} : Finish(e)
    /\ UNCHANGED <<have, params, want, module, check_mode, diff_mode, update_diff>>

\* the record is not found, state is absent: lines 589-590 of exec_module
RecordAbsent ==
    /\ At("record", "fetched") /\ State = S("absent") /\ have = N
    /\ Finish(ExitJson(Res(FALSE, N, <<>>), D(S("changed") :> Bool(FALSE))))
    /\ UNCHANGED <<have, params, want, module, check_mode, diff_mode, update_diff>>

\* exec_module of ns1_monitor_job.py: the job is found, state is present;
\* the q package is installed or it is not
UpdateJob ==
    /\ At("monitor_job", "fetched") /\ State = S("present") /\ PyTruthy(have)
    /\ \E q_installed \in BOOLEAN :
          \E e \in {update_job(check_mode, q_installed, have, params)} : Finish(e)
    /\ UNCHANGED <<have, params, want, module, check_mode, diff_mode, update_diff>>

CreateJob ==
    /\ At("monitor_job", "fetched") /\ State = S("present") /\ ~PyTruthy(have)
    /\ \E e \in {create_job(check_mode, params)} : Finish(e)
    /\ UNCHANGED <<have, params, want, module, check_mode, diff_mode, update_diff>>

MonitorAbsent ==
    /\ At("monitor_job", "fetched") /\ State = S("absent")
    /\ \E e \in {monitor_absent(check_mode, have)} : Finish(e)
    /\ UNCHANGED <<have, params, want, module, check_mode, diff_mode, update_diff>>

\* exec_module of ns1_notifier_list.py
UpdateList ==
    /\ At("notifier_list", "fetched") /\ State = S("present") /\ PyTruthy(have)
    /\ \E e \in {update_list(check_mode, have, params)} : Finish(e)
    /\ UNCHANGED <<have, params, want, module, check_mode, diff_mode, update_diff>>

CreateList ==
    /\ At("notifier_list", "fetched") /\ State = S("present") /\ ~PyTruthy(have)
    /\ \E e \in {create_list(check_mode, params)} : Finish(e)
    /\ UNCHANGED <<have, params, want, module, check_mode, diff_mode, update_diff>>

NotifierAbsent ==
    /\ At("notifier_list", "fetched") /\ State = S("absent")
    /\ \E e \in {notifier_absent(check_mode, have)} : Finish(e)
    /\ UNCHANGED <<have, params, want, module, check_mode, diff_mode, update_diff>>

\* exec_module of ns1_data_feed.py
FeedPresent ==
    /\ At("data_feed", "fetched") /\ State = S("present")
    /\ \E e \in {feed_present(check_mode, have, params)} : Finish(e)
    /\ UNCHANGED <<have, params, want, module, check_mode, diff_mode, update_diff>>

FeedAbsent ==
    /\ At("data_feed", "fetched") /\ State = S("absent")
    /\ \E e \in {feed_absent(check_mode, have)} : Finish(e)
    /\ UNCHANGED <<have, params, want, module, check_mode, diff_mode, update_diff>>

NextRun ==
    \/ GetZone \/ ZoneCompare \/ ZoneUpdateOnChange \/ ZoneCreate \/ ZoneAbsent
    \/ GetTsig \/ TsigCompare \/ TsigUpdateOnChange \/ TsigCreate \/ TsigAbsent
    \/ CheckExistence \/ TeamPresent \/ TeamAbsent
    \/ RecordGetZone \/ GetRecord \/ RecordUpdate \/ RecordDelete \/ RecordCreate
    \/ RecordAbsent
    \/ GetJob \/ UpdateJob \/ CreateJob \/ MonitorAbsent
    \/ GetList \/ UpdateList \/ CreateList \/ NotifierAbsent
    \/ GetFeed \/ FeedPresent \/ FeedAbsent

SpecRun == InitRun /\ [][NextRun]_vars


(***************************************************************************)
(* Properties of the invocations (SpecRun).                                *)
(***************************************************************************)
\* update_on_change has run to the end: the zone or tsig module, state
\* present, for a resource that exists
UpdatedOnChange ==
    /\ pc = "done"
    /\ module \in {"zone", "tsig"}
    /\ State = S("present")
    /\ PyTruthy(have)

\* C6: in the zone and tsig modules, for an existing resource,
\* update_on_change reports changed=True iff the computed diff is non-empty;
\* with an empty diff it issues no call and returns the fetched object as it
\* was; with a non-empty diff, not in check mode, it issues one update whose
\* payload is exactly the diff.
C6_UpdateIffDiff ==
    UpdatedOnChange =>
        /\ update_diff = get_changed_params(have, sanitize_params(params))
        /\ changed <=> Truthy(update_diff)
        /\ ~Truthy(update_diff) => (calls = <<>> /\ out = have /\ remote = have)
        /\ (Truthy(update_diff) /\ ~check_mode) =>
              calls = <<Call("update", module, update_diff)>>

\* an existing zone differs in some but not all of the fields the task
\* gives: one update was issued, and it carries exactly the diff
C6_Witness ==
    /\ UpdatedOnChange
    /\ module = "zone"
    /\ ~check_mode
    /\ Truthy(update_diff)
    /\ Keys(update_diff) # Keys(want)
    /\ Len(calls) = 1
    /\ calls[1].op = "update"
    /\ calls[1].args = update_diff

\* C7: in check mode no module issues a create, update or delete call to
\* the NS1 client, whatever the state asked for and whatever NS1 stores; a
\* method wrapped by skip_in_check_mode returns None without calling the
\* wrapped function (the create of zone and tsig, the update of tsig).
C7_NoWriteInCheckMode ==
    check_mode =>
        /\ calls = <<>>
        /\ (pc = "done" /\ module \in {"zone", "tsig"} /\ State = S("present")
               /\ ~PyTruthy(have)) => out = N
        /\ (pc = "done" /\ module = "tsig" /\ State = S("present") /\ PyTruthy(have)
               /\ Truthy(update_diff)) => out = N

\* in check mode a tsig key that differs was found: the change is reported
\* and the wrapped update returned None
C7_Witness ==
    /\ check_mode
    /\ pc = "done"
    /\ module = "tsig"
    /\ PyTruthy(have)
    /\ changed
    /\ out = N
    /\ calls = <<>>

(***************************************************************************)
(* Routing of an invocation: which write follows which fetch.              *)
(***************************************************************************)
\* a call of the operation op was issued in this invocation
Issued(op) == \E i \in DOMAIN calls : calls[i].op = op

\* the fetch found the resource
Found == PyTruthy(have)

\* the comparison of the module found a difference between the fetched
\* resource and the task
Difference ==
    CASE module \in {"zone", "tsig"} -> Truthy(update_diff)
      [] module = "record" -> Truthy(record_args(params, sanitize_record(have)))
      [] module = "monitor_job" ->
            JobChanged(sanitize_job(have), full_input_args(params))
      [] OTHER -> FALSE

\* C16: in the zone, tsig, record and monitor-job modules the fetch happens
\* before any write; create is issued only when the fetch found no resource
\* and state is present; update only when the fetch found the resource,
\* state is present and the comparison found a difference; delete only when
\* the fetch found the resource and state is absent; create and update are
\* never both issued in one invocation.
C16_Routing ==
    module \in {"zone", "tsig", "record", "monitor_job"} =>
        /\ pc \in {"start", "zone_loaded"} => calls = <<>>
        /\ calls # <<>> => pc = "done"
        /\ Issued("create") => (~Found /\ State = S("present"))
        /\ Issued("update") => (Found /\ State = S("present") /\ Difference)
        /\ Issued("delete") => (Found /\ State = S("absent"))
        /\ ~(Issued("create") /\ Issued("update"))

\* a record that exists and differs from the task was updated
C16_Witness ==
    /\ module = "record"
    /\ pc = "done"
    /\ Found
    /\ State = S("present")
    /\ Difference
    /\ Issued("update")
    /\ ~Issued("create")

\* the operations that write to NS1
Writes == {"create", "update", "delete"}

\* C17: every invocation of every module issues at most one write call
\* (create, update or delete) to the NS1 client for the managed resource,
\* for any parameters, any remote state and any mode; exit_json and
\* fail_json end the invocation.
C17_AtMostOneWrite ==
    /\ Len(calls) <= 1
    /\ \A i \in DOMAIN calls : calls[i].op \in Writes /\ calls[i].target = module

\* an invocation that ended after its one write; the team module is the one
\* whose end is an error after the write
C17_Witness ==
    /\ module = "team"
    /\ pc = "raised"
    /\ Len(calls) = 1
    /\ calls[1].op \in Writes

\* C18: with state=absent the modules report changed=True iff the fetch
\* found the resource, issue delete only in that case and only outside
\* check mode, and never issue create or update; a delete that was issued
\* is reported (changed=True) and leaves nothing at NS1, so that running
\* state=absent again finds nothing, reports changed=False and issues no
\* write.
C18_AbsentDeletesAndReports ==
    State = S("absent") =>
        /\ ~Issued("create") /\ ~Issued("update")
        /\ Issued("delete") => (Found /\ ~check_mode)
        /\ pc = "done" => (changed <=> Found)
        /\ Issued("delete") => (pc = "done" /\ changed /\ remote = N)
        /\ (pc = "done" /\ ~Found) => (~changed /\ calls = <<>>)

(***************************************************************************)
(* Properties of the record module: record_mode purge and append.          *)
(***************************************************************************)
\* update(record) has run to the end: the record module, state present, for
\* a record that exists
RecordUpdated ==
    /\ pc = "done"
    /\ module = "record"
    /\ State = S("present")
    /\ have # N

\* the value the task declares for a key: a list without the null
\* sub-fields of its elements, any other value as it is
Declared(key) ==
    LET given == params.v[key]
    IN  IF IsList(given)
        THEN L([i \in DOMAIN given.v |->
                  D([f \in {g \in Keys(given.v[i]) : given.v[i].v[g] # N} |->
                       given.v[i].v[f]])])
        ELSE given

\* the value the record has for a key, ids and feeds left out
Existing(key) == sanitize_record(have).v[key]

\* the keys of the payload of the update that was issued
Payload == IF calls = <<>> THEN EmptyDict ELSE calls[1].args

\* the declared list has the elements of the record's list in another
\* order, or lacks an element the record has
ReorderedOrLacking(key) ==
    /\ params.v[key] # N
    /\ Declared(key) # Existing(key)
    /\ \/ Elems(Declared(key)) = Elems(Existing(key))
       \/ Elems(Existing(key)) \ Elems(Declared(key)) # {}

\* C19: with record_mode=purge, answers and filters are compared as ordered
\* lists: when the declared list has the record's elements in a different
\* order, or lacks an element the record has, the run reports changed=True
\* and the update payload sets that key to exactly the declared list, null
\* sub-fields removed; a key whose declared value equals the record's value
\* is not in the payload.
C19_PurgeComparesOrderedLists ==
    (RecordUpdated /\ params.v[S("record_mode")] = S("purge")) =>
        \A key \in DOMAIN RECORD_KEYS_MAP :
            /\ (key \in {S("answers"), S("filters")} /\ ReorderedOrLacking(key)) =>
                  /\ changed
                  /\ ~check_mode =>
                        /\ Len(calls) = 1 /\ calls[1].op = "update"
                        /\ key \in Keys(Payload)
                        /\ Payload.v[key] = Declared(key)
            /\ (params.v[key] # N /\ Declared(key) = Existing(key)) =>
                  key \notin Keys(Payload)

\* the task declares the two answers of the record in the other order, and
\* the filters and ttl the record has: the update carries the answers as
\* declared and nothing else
C19_Witness ==
    /\ RecordUpdated
    /\ params.v[S("record_mode")] = S("purge")
    /\ ~check_mode
    /\ Len(Declared(S("answers")).v) = 2
    /\ Elems(Declared(S("answers"))) = Elems(Existing(S("answers")))
    /\ Declared(S("answers")) # Existing(S("answers"))
    /\ changed
    /\ Keys(Payload) = {S("answers")}
    /\ Payload.v[S("answers")] = Declared(S("answers"))

\* the record's list, followed by the declared elements that are not in it,
\* in declared order
Union(key) ==
    LET missing == SelectSeq(Declared(key).v,
                             LAMBDA input_obj : input_obj \notin Elems(Existing(key)))
    IN  L([i \in 1..(Len(Existing(key).v) + Len(missing)) |->
             IF i <= Len(Existing(key).v) THEN Existing(key).v[i]
             ELSE missing[i - Len(Existing(key).v)]])

\* the key is a change in append mode: an appendable key when a declared
\* element is not in the record's list, any other key when the declared
\* value is not the record's value
ChangeInAppendMode(key) ==
    /\ params.v[key] # N
    /\ IF RECORD_KEYS_MAP[key]
       THEN Elems(Declared(key)) \ Elems(Existing(key)) # {}
       ELSE Declared(key) # Existing(key)

\* C20: with record_mode=append the value sent on update for the appendable
\* keys answers and filters is the record's existing list, in its order and
\* with no element removed, followed by the declared elements that are not
\* already in it, in declared order; when every declared element already
\* exists the key is not a change (it is not in the update, and changed is
\* False if nothing else differs); a non-appendable key is still replaced
\* by the declared value.
C20_AppendKeepsExisting ==
    (RecordUpdated /\ params.v[S("record_mode")] = S("append")) =>
        /\ changed <=> \E key \in DOMAIN RECORD_KEYS_MAP : ChangeInAppendMode(key)
        /\ (~changed \/ check_mode) => calls = <<>>
        /\ (changed /\ ~check_mode) =>
              /\ Len(calls) = 1 /\ calls[1].op = "update"
              /\ Keys(Payload) = {key \in DOMAIN RECORD_KEYS_MAP : ChangeInAppendMode(key)}
              /\ \A key \in Keys(Payload) :
                    Payload.v[key] = IF RECORD_KEYS_MAP[key] THEN Union(key)
                                     ELSE Declared(key)

\* the record has answer a, the task declares b and a, and another ttl: the
\* update carries the answers a, b and the declared ttl
C20_Witness ==
    /\ RecordUpdated
    /\ params.v[S("record_mode")] = S("append")
    /\ ~check_mode
    /\ Len(Existing(S("answers")).v) = 1
    /\ Len(Declared(S("answers")).v) = 2
    /\ Declared(S("answers")).v[2] = Existing(S("answers")).v[1]
    /\ {S("answers"), S("ttl")} \subseteq Keys(Payload)
    /\ Payload.v[S("answers")] =
          L(<<Existing(S("answers")).v[1], Declared(S("answers")).v[1]>>)
    /\ Payload.v[S("ttl")] = params.v[S("ttl")]

(***************************************************************************)
(* How the invocations end on a missing zone and on a failed fetch.        *)
(***************************************************************************)
\* the record module starts and NS1 has no such zone
ZoneMissing == module = "record" /\ pc = "start" /\ remote = NoZone

\* C21: in the record module, when loading the zone returns 404: with
\* state=absent and ignore_missing_zone=true the run ends with changed=False
\* and no write; in every other case it ends with a failure and no write.
\* No record is created, updated or deleted when its zone was not found.
\* (A step from ZoneMissing that ends in the failure "error code" is the
\* answer of NS1 with another code than 404.)
C21_MissingZone ==
    [][ZoneMissing =>
          /\ calls' = <<>> /\ remote' = NoZone
          /\ pc' \in {"done", "failed"}
          /\ result' # Fail("error code") =>
                IF State = S("absent") /\ params.v[S("ignore_missing_zone")] # I(0)
                THEN pc' = "done" /\ ~changed'
                     /\ result' = D(S("changed") :> Bool(FALSE))
                ELSE pc' = "failed" /\ result' = Fail("zone not found")]_vars

\* a record is to be absent from a zone NS1 does not have, and the task
\* ignores the missing zone: nothing changed, nothing written
C21_Witness ==
    /\ module = "record"
    /\ remote = NoZone
    /\ State = S("absent")
    /\ params.v[S("ignore_missing_zone")] # I(0)
    /\ pc = "done"
    /\ ~changed
    /\ calls = <<>>

\* the step is a read of the resource that the invocation goes on from
FetchedStep == pc \in {"start", "zone_loaded"} /\ pc' = "fetched"

\* the step is a read that ends the invocation with fail_json
FetchFailedStep == pc \in {"start", "zone_loaded"} /\ pc' = "failed"

\* a step of the zone, tsig or record module: an invocation that goes on
\* after the fetch holds what NS1 stores, which is None only when NS1 stores
\* nothing (the 404); a failed fetch ends it with the error and no write;
\* nothing follows a failure; a create follows a fetch that found nothing
FetchSurfaces ==
    /\ FetchedStep => have' = remote
    /\ FetchFailedStep =>
          /\ result' \in {Fail("error code"), Fail("zone not found")}
          /\ (result' = Fail("zone not found")) => (remote = NoZone)
          /\ calls' = <<>>
          /\ remote' = remote
    /\ pc # "failed"
    /\ (calls' # calls /\ calls'[Len(calls')].op = "create") => (have = N /\ remote = N)

\* C22: in the zone, tsig and record modules a fetch error whose code is not
\* 404 ends the invocation with fail_json carrying the error code and
\* message, and no create, update or delete is issued afterwards; only a 404
\* is treated as "resource not found" and may lead to a create.
C22_FetchFailuresSurface ==
    [][(module \in {"zone", "tsig", "record"}) => FetchSurfaces]_vars

\* NS1 answers the read of a zone it stores with an error: the invocation
\* failed with the error and wrote nothing
C22_Witness ==
    /\ module = "zone"
    /\ pc = "failed"
    /\ result = Fail("error code")
    /\ remote # N
    /\ have = N
    /\ calls = <<>>

\* C23: every invocation of the team module, for state present or absent,
\* with diff mode on or off, with or without an existing team, ends either
\* with a result that contains the key changed or with fail_json; it never
\* ends in an unhandled error, and in particular never after a create,
\* update or delete has already been issued.
C23_TeamBinaryOutcome ==
    module = "team" =>
        /\ pc # "raised"
        /\ pc = "done" => S("changed") \in Keys(result)
        /\ calls # <<>> => pc = "done"

(***************************************************************************)
(* Convergence: a run against a resource that is as declared is a no-op.   *)
(***************************************************************************)
\* C24: in the tsig module, when the fetched key (a mapping with the fields
\* name, algorithm and secret) already has the declared algorithm and secret
\* under the declared key name, a state=present run computes an empty diff,
\* issues no update and reports changed=False.
C24_TsigNoOp ==
    (/\ module = "tsig" /\ pc = "done" /\ State = S("present")
     /\ PyTruthy(have)
     /\ have.v[S("name")] = params.v[S("key_name")]
     /\ have.v[S("algorithm")] = params.v[S("algorithm")]
     /\ have.v[S("secret")] = params.v[S("secret")]) =>
        /\ ~Truthy(update_diff)
        /\ calls = <<>>
        /\ ~changed

\* the fetched job has, for every field of MONITOR_KEYS_MAP the task
\* declares, the declared value; the regions in any order
JobAsDeclared ==
    \A key \in MONITOR_KEYS_MAP :
        params.v[key] # N =>
            /\ key \in Keys(have)
            /\ IF key = S("regions")
               THEN /\ Elems(params.v[key]) = Elems(have.v[key])
                    /\ Len(params.v[key].v) = Len(have.v[key].v)
               ELSE params.v[key] = have.v[key]

\* C25: in the monitor-job module, for every declared parameter set,
\* including every combination of the config sub-fields follow_redirect,
\* ipv6 and user_agent and every order of regions, when each declared
\* non-null field equals the value the fetched job has for it, a
\* state=present run reports changed=False and issues no update.
C25_MonitorNoOp ==
    (/\ module = "monitor_job" /\ State = S("present")
     /\ pc \in {"done", "failed"}
     /\ PyTruthy(have)
     /\ JobAsDeclared) =>
        /\ pc = "done"
        /\ ~changed
        /\ calls = <<>>

\* a normal run of the zone module for a zone that exists has ended; remote
\* is the zone as NS1 stores it after the run
ZoneReconciled == UpdatedOnChange /\ module = "zone" /\ ~check_mode

\* the diff a second run with the same parameters computes from the zone
\* NS1 stores now
SecondDiff == get_changed_params(remote, sanitize_params(params))

\* C27: zone reconciliation converges in one step: when NS1 applies an
\* update by merging the diff payload into the zone data (nested objects
\* key by key, lists and scalars replaced), a second state=present run with
\* the same parameters against the updated zone computes an empty diff,
\* issues no write and reports changed=False, for every initial zone data
\* and parameter set, set-list fields and primary.secondaries included.
C27_ZoneConvergesInOneStep ==
    ZoneReconciled =>
        /\ SecondDiff = EmptyDict
        /\ zone_update_on_change(check_mode, remote, SecondDiff) = Res(FALSE, remote, <<>>)

\* the first run updated a sub-field of primary, the secondaries among the
\* changes, and the zone NS1 stores now is no longer the one fetched
C27_Witness ==
    /\ ZoneReconciled
    /\ Len(calls) = 1
    /\ calls[1].op = "update"
    /\ S("primary") \in Keys(update_diff)
    /\ S("secondaries") \in Keys(update_diff.v[S("primary")])
    /\ remote # have
    /\ SecondDiff = EmptyDict

\* NS1 stores a feed with the declared name and the declared config
FeedAsDeclared ==
    /\ remote # N
    /\ remote.v[S("name")] = params.v[S("name")]
    /\ remote.v[S("config")] = params.v[S("config")]

\* C29: every state=present invocation of the data-feed module that ends
\* without failure leaves a remote feed with the declared name whose config
\* equals the declared config, or else reports changed=True for the write
\* that made it so; in particular, when a feed with the declared name exists
\* with a different config, the run does not end with changed=False while
\* the remote config still differs.
C29_FeedConverges ==
    (module = "data_feed" /\ State = S("present") /\ pc = "done") =>
        /\ FeedAsDeclared \/ changed
        /\ calls # <<>> => (changed /\ FeedAsDeclared)

(***************************************************************************)
(* What the zone module hands to the NS1 client.                           *)
(***************************************************************************)
\* the keyword arguments are sanitized: none of the SANITIZED_PARAMS, and no
\* parameter whose value is None
SanitizedArgs(args) ==
    /\ Keys(args) \cap SANITIZED_PARAMS = {}
    /\ \A param \in Keys(args) : args.v[param] # N

\* C26: no call from the zone module to the NS1 API carries unsanitized
\* parameters: the keyword arguments passed to create (zone not found) and
\* to update (zone found) contain neither of the SANITIZED_PARAMS keys state
\* and name, and no parameter whose value is null.
C26_ZoneCallsSanitized ==
    module = "zone" =>
        \A i \in DOMAIN calls :
            calls[i].op \in {"create", "update"} => SanitizedArgs(calls[i].args)

\* get_changed_params has returned a diff for a resource that has primary,
\* and diff_params had put primary into the diff
PrimaryCompared ==
    /\ pc = "compared"
    /\ S("primary") \in Keys(have)
    /\ S("primary") \in Keys(diff_params(have, want))

\* diff_in_secondaries of the secondaries that have and want give in primary
SecondariesDiffer ==
    diff_in_secondaries(
        IF S("secondaries") \in Keys(have.v[S("primary")])
        THEN have.v[S("primary")].v[S("secondaries")] ELSE N,
        IF S("secondaries") \in Keys(want.v[S("primary")])
        THEN want.v[S("primary")].v[S("secondaries")] ELSE N)

\* the diff has the entry primary.secondaries
HasSecondaries(computed) ==
    /\ S("primary") \in Keys(computed)
    /\ S("secondaries") \in Keys(computed.v[S("primary")])

ChangedInOtherMode ==
    CASE module = "zone" /\ State = S("present") /\ PyTruthy(have) ->
            zone_update_on_change(~check_mode, have, update_diff).changed
      [] module = "zone" /\ State = S("present") /\ ~PyTruthy(have) ->
            zone_present_create(~check_mode, ReAdded(sanitize_params(params), params)).changed
      [] module = "zone" /\ State = S("absent") ->
            zone_absent(~check_mode, have).changed
      [] module = "tsig" /\ State = S("present") /\ PyTruthy(have) ->
            tsig_update_on_change(~check_mode, have, update_diff).changed
      [] module = "tsig" /\ State = S("present") /\ ~PyTruthy(have) ->
            tsig_present_create(~check_mode, sanitize_params(params)).changed
      [] module = "tsig" /\ State = S("absent") ->
            tsig_absent(~check_mode, have).changed
      [] module = "record" /\ State = S("present") /\ have # N ->
            record_update(~check_mode, diff_mode, have, params).changed
      [] module = "record" /\ State = S("present") /\ have = N ->
            record_create(~check_mode, diff_mode, params).changed
      [] module = "record" /\ State = S("absent") /\ have # N ->
            record_delete(~check_mode, diff_mode, have).changed
      [] module = "record" /\ State = S("absent") /\ have = N -> FALSE

\* C30: in the zone, tsig and record modules, for the same parameters and
\* the same fetched remote state, the changed value reported by a check-mode
\* run equals the changed value reported by a normal run (in which the
\* write succeeds), for state present and absent, with the resource
\* existing or not.
C30_CheckModeFidelity ==
    (module \in {"zone", "tsig", "record"} /\ pc = "done") =>
        changed = ChangedInOtherMode

\* check mode reports the change that a normal run would make to a record
\* that differs, and writes nothing
C30_Witness ==
    /\ module = "record"
    /\ pc = "done"
    /\ check_mode
    /\ State = S("present")
    /\ have # N
    /\ changed
    /\ ChangedInOtherMode
    /\ calls = <<>>
    /\ record_update(FALSE, diff_mode, have, params).calls # <<>>

=============================================================================
